---- MODULE Spec2Model ----
(***************************************************************************)
(* dmake: the configuration-variable engine (vars.go), the per-directory   *)
(* build run and the directory walker (dmake.go), and the directory loop   *)
(* of main (main.go).                                                      *)
(*                                                                         *)
(* Strings are sequences of one-character strings, so that trimming,       *)
(* searching, splitting and interpolation are computed as the code         *)
(* computes them.                                                          *)
(***************************************************************************)
EXTENDS Integers, Sequences, FiniteSets, TLC

VARIABLES
    goos,       \* runtime.GOOS of the host
    \* ---- Vars.ReadFromReader (vars.go)
    rpc,        \* position of the reader: "start", "scan", "done", "idle"
    vars,       \* the Vars map: key -> [op, value]
    lineno,     \* lineno
    cur,        \* the line of input the scanner delivered last
    rerr,       \* the error ReadFromReader returned (NoError if none)
    \* ---- Dmake.Run / Dmake.Directories (dmake.go)
    stack,      \* one frame per active Dmake.Run, innermost last
    cwd,        \* the process working directory
    keepgoing,  \* *keepgoing
    action,     \* the Action given to Run
    dllflag,    \* *dllflag
    pluginflag, \* *pluginflag
    \* ---- main, directory loop (main.go)
    mpc,        \* position of main: "loop", "exit", "idle"
    kflag,      \* *kflag
    mdirs,      \* subdirectory_names
    mi,         \* index of the next directory of the loop
    mfailed,    \* the directories whose do_dmake_in returned an error
    mvisited,   \* the directories do_dmake_in was called for, in order
    exitcode,   \* the process exit status, once mpc = "exit"
    \* ---- one call of a function or of an action taken alone
    cpc,        \* position of the call: "call", "done", "idle"
    cin,        \* what the call is given: its arguments and what it reads
    cout        \* what the call gives: its results and what it writes

readerVars == <<rpc, vars, lineno, cur, rerr>>
runVars == <<stack, cwd, keepgoing, action, dllflag, pluginflag>>
mainVars == <<mpc, kflag, mdirs, mi, mfailed, mvisited, exitcode>>
callVars == <<cpc, cin, cout>>
allVars == <<goos, readerVars, runVars, mainVars, callVars>>

----------------------------------------------------------------------------
(* Bounds *)

MaxLines == 2
MaxResolutions == 2
MaxMainDirs == 3

----------------------------------------------------------------------------
(* strings: package strings / unicode of the Go library, as vars.go uses them *)

Min(S) == CHOOSE x \in S : \A y \in S : x <= y

\* unicode.IsSpace, on the characters of the model's alphabet
SpaceChars == {" ", "\t"}

IsSpace(c) == c \in SpaceChars

RECURSIVE TrimLeft(_)
TrimLeft(s) == IF s # <<>> /\ IsSpace(Head(s)) THEN TrimLeft(Tail(s)) ELSE s

RECURSIVE TrimRight(_)
TrimRight(s) ==
    IF s # <<>> /\ IsSpace(s[Len(s)]) THEN TrimRight(SubSeq(s, 1, Len(s) - 1)) ELSE s

\* strings.TrimSpace
TrimSpace(s) == TrimRight(TrimLeft(s))

\* strings.HasPrefix / strings.HasSuffix
HasPrefix(s, p) == Len(p) <= Len(s) /\ SubSeq(s, 1, Len(p)) = p
HasSuffix(s, p) == Len(p) <= Len(s) /\ SubSeq(s, Len(s) - Len(p) + 1, Len(s)) = p

\* strings.Index: the 0-based position of the first occurrence of sub in s, or -1
Index(s, sub) ==
    LET hits == { i \in 0 .. (Len(s) - Len(sub)) : SubSeq(s, i + 1, i + Len(sub)) = sub }
    IN  IF hits = {} THEN -1 ELSE Min(hits)

\* strings.Fields: the maximal runs of non-space characters
RECURSIVE Fields(_)
Fields(s) ==
    LET t == TrimLeft(s)
        ends == { i \in 1 .. Len(t) : IsSpace(t[i]) }
        n == IF ends = {} THEN Len(t) ELSE Min(ends) - 1
    IN  IF t = <<>> THEN <<>>
        ELSE <<SubSeq(t, 1, n)>> \o Fields(SubSeq(t, n + 1, Len(t)))

\* a removal that stops after the first occurrence of old
RemoveFirst(s, old) ==
    IF old = <<>> \/ Index(s, old) = -1 THEN s
    ELSE SubSeq(s, 1, Index(s, old)) \o SubSeq(s, Index(s, old) + Len(old) + 1, Len(s))

\* strings.ReplaceAll(s, old, ""): the non-overlapping occurrences of old,
\* found left to right, are removed (an empty old removes nothing)
RECURSIVE RemoveAll(_, _)
RemoveAll(s, old) ==
    IF old = <<>> \/ s = <<>> THEN s
    ELSE IF HasPrefix(s, old) THEN RemoveAll(SubSeq(s, Len(old) + 1, Len(s)), old)
    ELSE <<Head(s)>> \o RemoveAll(Tail(s), old)

----------------------------------------------------------------------------
(* enums.go: Op, operators, OpFromString *)

OpEq == "OpEq"
OpPlusEq == "OpPlusEq"
OpMinusEq == "OpMinusEq"
UnknownOp == "UnknownOp"

EqText == <<"=">>
PlusEqText == <<"+", "=">>
MinusEqText == <<"-", "=">>

\* the operators, in the order ReadFromReader tries them
operators == <<EqText, PlusEqText, MinusEqText>>

\* OpFromString (which panics on any other string: UnknownOp stands for that)
OpFromString(s) ==
    IF s = EqText THEN OpEq
    ELSE IF s = PlusEqText THEN OpPlusEq
    ELSE IF s = MinusEqText THEN OpMinusEq
    ELSE UnknownOp

----------------------------------------------------------------------------
(* vars.go: Var, Vars *)

MakeVar(op, value) == [op |-> op, value |-> value]

\* a += that puts a blank between the old value and the new one
PlusEqSpaced(v, rhs) == MakeVar(OpEq, (v.value \o <<" ">>) \o rhs.value)

PlusEq(v, rhs) == MakeVar(OpEq, v.value \o rhs.value)

MinusEq(v, rhs) == MakeVar(OpEq, RemoveAll(v.value, rhs.value))

\* make(Vars)
EmptyVars == [k \in {} |-> MakeVar(OpEq, <<>>)]

Set(vs, key, v) == [k \in DOMAIN vs \cup {key} |-> IF k = key THEN v ELSE vs[k]]

SetValue(vs, key, value) == Set(vs, key, MakeVar(OpEq, value))

Found(vs, key) == key \in DOMAIN vs

\* Vars.GetString: the value, or "" when the key is not defined
GetString(vs, key) == IF Found(vs, key) THEN vs[key].value ELSE <<>>

\* a readAndAppend that leaves the character stopFn accepted in the input
readAndAppendKeepingStop(s, i, acc, stopFn) ==
    LET stops == { j \in i .. Len(s) : s[j] \in stopFn }
    IN  IF stops = {}
        THEN [key |-> acc \o SubSeq(s, i, Len(s)), next |-> Len(s) + 1]
        ELSE [key |-> acc \o SubSeq(s, i, Min(stops) - 1), next |-> Min(stops)]

\* readAndAppend: reads s from position i on, appending to acc, until the
\* input ends or stopFn accepts a character (which is consumed and dropped);
\* next is the position of the first character not read.  stopFn is given
\* as the set of the characters it accepts.
readAndAppend(s, i, acc, stopFn) ==
    LET stops == { j \in i .. Len(s) : s[j] \in stopFn }
    IN  IF stops = {}
        THEN [key |-> acc \o SubSeq(s, i, Len(s)), next |-> Len(s) + 1]
        ELSE [key |-> acc \o SubSeq(s, i, Min(stops) - 1), next |-> Min(stops) + 1]

\* func(ch rune) bool { return ch == '}' }
IsCloseBrace == {"}"}

\* a loop that copies both characters of "$$"
RECURSIVE InterpolateFromDoubled(_, _, _, _)
InterpolateFromDoubled(vs, s, i, b) ==
    IF i > Len(s) THEN b
    ELSE IF s[i] # "$" THEN InterpolateFromDoubled(vs, s, i + 1, b \o <<s[i]>>)
    ELSE IF i + 1 > Len(s) THEN b \o <<"$">>
    ELSE IF s[i + 1] = "$"
         THEN InterpolateFromDoubled(vs, s, i + 2, (b \o <<"$", "$">>) \o GetString(vs, <<>>))
    ELSE IF s[i + 1] = "{"
         THEN LET r == readAndAppend(s, i + 2, <<>>, IsCloseBrace)
              IN  InterpolateFromDoubled(vs, s, r.next, b \o GetString(vs, r.key))
    ELSE LET r == readAndAppend(s, i + 2, <<s[i + 1]>>, SpaceChars)
         IN  InterpolateFromDoubled(vs, s, r.next, b \o GetString(vs, r.key))

\* the loop of Vars.Interpolate, from position i with b written so far
RECURSIVE InterpolateFrom(_, _, _, _)
InterpolateFrom(vs, s, i, b) ==
    IF i > Len(s) THEN b
    ELSE IF s[i] # "$" THEN InterpolateFrom(vs, s, i + 1, b \o <<s[i]>>)
    ELSE IF i + 1 > Len(s) THEN b \o <<"$">>
    ELSE IF s[i + 1] = "$"
         THEN InterpolateFrom(vs, s, i + 2, (b \o <<"$">>) \o GetString(vs, <<>>))
    ELSE IF s[i + 1] = "{"
         THEN LET r == readAndAppend(s, i + 2, <<>>, IsCloseBrace)
              IN  InterpolateFrom(vs, s, r.next, b \o GetString(vs, r.key))
    ELSE LET r == readAndAppend(s, i + 2, <<s[i + 1]>>, SpaceChars)
         IN  InterpolateFrom(vs, s, r.next, b \o GetString(vs, r.key))

\* Vars.Interpolate (reading a string never fails, so the error is always nil)
Interpolate(vs, s) == InterpolateFrom(vs, s, 1, <<>>)

\* Vars.Apply, for the operators it knows (it panics on any other)
Apply(vs, key, rhs) ==
    CASE rhs.op = OpEq -> Set(vs, key, rhs)
      [] rhs.op = OpPlusEq ->
            IF Found(vs, key) THEN Set(vs, key, PlusEq(vs[key], rhs))
            ELSE SetValue(vs, key, rhs.value)
      [] rhs.op = OpMinusEq ->
            IF Found(vs, key) THEN Set(vs, key, MinusEq(vs[key], rhs))
            ELSE SetValue(vs, key, rhs.value)
      [] OTHER -> vs

ApplyPanics(rhs) == rhs.op \notin {OpEq, OpPlusEq, OpMinusEq}

----------------------------------------------------------------------------
(* vars.go: Vars.ReadFromReader *)

NoError == "nil"
Panic == "panic"
NoNameMessage == "malformed line, no variable name before operator"
SpacesMessage == "malformed line, variable names may not contain spaces"

\* the path ReadDmakefile reads
dmakeFileFilename == ".dmake"

OSKey == <<"O", "S">>
ARCHKey == <<"A", "R", "C", "H">>
TrueText == <<"t", "r", "u", "e">>

Hosts == {"linux", "darwin", "windows"}

\* runtime.GOOS and runtime.GOARCH as text
GoosText(os) ==
    CASE os = "linux" -> <<"l", "i", "n", "u", "x">>
      [] os = "darwin" -> <<"d", "a", "r", "w", "i", "n">>
      [] os = "windows" -> <<"w", "i", "n", "d", "o", "w", "s">>

GoarchText == <<"a", "m", "d", "6", "4">>

\* the loop over operators: the first operator, in the order of the list,
\* that occurs anywhere in the line, and the position it occurs at
FindOp(line) ==
    LET hits == { i \in 1 .. Len(operators) : Index(line, operators[i]) # -1 }
    IN  IF hits = {}
        THEN [op |-> operators[Len(operators)], opIndex |-> -1]
        ELSE [op |-> operators[Min(hits)], opIndex |-> Index(line, operators[Min(hits)])]

\* the last statement of the loop body: vars.Apply(key, Var{OpFromString(op), val})
ApplyLine(vs, key, op, val) ==
    LET rhs == MakeVar(OpFromString(op), val)
    IN  IF ApplyPanics(rhs) THEN [vars |-> vs, err |-> Panic]
        ELSE [vars |-> Apply(vs, key, rhs), err |-> NoError]

\* a value that is stored as written, its references left for later
LineValueAsWritten(vs, line, opIndex) ==
    TrimSpace(SubSeq(line, opIndex + 2, Len(line)))

\* the value of a line with an operator at opIndex: the text after the
\* character at opIndex, trimmed and interpolated against the store as it is
LineValue(vs, line, opIndex) ==
    Interpolate(vs, TrimSpace(SubSeq(line, opIndex + 2, Len(line))))

\* a loop body that defines a bare key with the empty value
ParseLineBareEmpty(vs, raw) ==
    LET line == TrimSpace(raw)
        f == FindOp(line)
        key == TrimSpace(SubSeq(line, 1, f.opIndex))
    IN  IF line = <<>> \/ line[1] = "#" THEN [vars |-> vs, err |-> NoError]
        ELSE IF f.opIndex = -1 THEN ApplyLine(vs, TrimSpace(line), EqText, <<>>)
        ELSE IF f.opIndex = 0 THEN [vars |-> vs, err |-> NoNameMessage]
        ELSE IF Len(Fields(key)) # 1 THEN [vars |-> vs, err |-> SpacesMessage]
        ELSE ApplyLine(vs, key, f.op, LineValue(vs, line, f.opIndex))

\* a loop body that passes over a malformed line and goes on
ParseLineLenient(vs, raw) ==
    LET line == TrimSpace(raw)
        f == FindOp(line)
        key == TrimSpace(SubSeq(line, 1, f.opIndex))
    IN  IF line = <<>> \/ line[1] = "#" THEN [vars |-> vs, err |-> NoError]
        ELSE IF f.opIndex = -1 THEN ApplyLine(vs, TrimSpace(line), EqText, TrueText)
        ELSE IF f.opIndex = 0 \/ Len(Fields(key)) # 1 THEN [vars |-> vs, err |-> NoError]
        ELSE ApplyLine(vs, key, f.op, LineValue(vs, line, f.opIndex))

\* one iteration of the scanner loop on the text of one line: the store
\* after it and the message of the error it fails with (NoError if none)
ParseLine(vs, raw) ==
    LET line == TrimSpace(raw)
        f == FindOp(line)
        key == TrimSpace(SubSeq(line, 1, f.opIndex))
    IN  IF line = <<>> \/ line[1] = "#" THEN [vars |-> vs, err |-> NoError]
        ELSE IF f.opIndex = -1 THEN ApplyLine(vs, TrimSpace(line), EqText, TrueText)
        ELSE IF f.opIndex = 0 THEN [vars |-> vs, err |-> NoNameMessage]
        ELSE IF Len(Fields(key)) # 1 THEN [vars |-> vs, err |-> SpacesMessage]
        ELSE ApplyLine(vs, key, f.op, LineValue(vs, line, f.opIndex))

\* fail(message): "path:lineno - message"
Fail(path, n, message) == [path |-> path, line |-> n, message |-> message]

----------------------------------------------------------------------------
(* The lines a configuration file is made of.  A line is described by its  *)
(* parts (key, operator, value, spacing); the reader sees only its text.   *)

KeyK == <<"K">>
KeyL == <<"L">>
KeyKL == <<"K", " ", "L">>

LineKeys == {KeyK, KeyL}
OddKeys == {OSKey, KeyKL, <<>>}
BareKeys == {KeyK, KeyL, OSKey, ARCHKey, KeyKL}
LineOps == {EqText, PlusEqText, MinusEqText}
LineVals == { <<"u">>, <<"u", " ", "v">>, <<"$", "{", "L", "}">>, <<"$", "K">> }

NoLine == [kind |-> "none", key |-> <<>>, op |-> <<>>, sp |-> FALSE, val |-> <<>>]

Lines ==
    [kind : {"blank"}, key : {<<>>}, op : {<<>>}, sp : {FALSE}, val : {<<>>, <<" ", "\t">>}]
    \cup [kind : {"comment"}, key : {<<>>}, op : {<<>>}, sp : BOOLEAN, val : {<<"#", "K", "=", "u">>}]
    \cup [kind : {"bare"}, key : BareKeys, op : {<<>>}, sp : {FALSE}, val : {<<>>}]
    \cup [kind : {"assign"}, key : LineKeys, op : LineOps, sp : BOOLEAN, val : LineVals]
    \cup [kind : {"assign"}, key : OddKeys, op : {EqText, PlusEqText}, sp : {TRUE}, val : {<<"u">>}]

Pad(sp) == IF sp THEN <<" ">> ELSE <<>>

\* the text of a line
LineText(ln) ==
    CASE ln.kind = "blank" -> ln.val
      [] ln.kind = "comment" -> Pad(ln.sp) \o ln.val
      [] ln.kind = "bare" -> Pad(ln.sp) \o ln.key \o Pad(ln.sp)
      [] ln.kind = "assign" -> ln.key \o Pad(ln.sp) \o ln.op \o Pad(ln.sp) \o ln.val
      [] OTHER -> <<>>

----------------------------------------------------------------------------
(* Actions of Vars.ReadFromReader *)

\* lines 150-159: the store is seeded with OS and ARCH, lineno is 0
ReadStart ==
    /\ rpc = "start"
    /\ vars' = SetValue(SetValue(vars, OSKey, GoosText(goos)), ARCHKey, GoarchText)
    /\ lineno' = 0
    /\ rpc' = "scan"
    /\ UNCHANGED <<cur, rerr>>

\* lines 161-193: the scanner delivers the line ln
ScanLine(ln) ==
    /\ rpc = "scan"
    /\ lineno < MaxLines
    /\ LET r == ParseLine(vars, LineText(ln))
       IN  /\ lineno' = lineno + 1
           /\ cur' = ln
           /\ vars' = r.vars
           /\ rerr' = IF r.err = NoError THEN NoError
                      ELSE IF r.err = Panic THEN Panic
                      ELSE Fail(dmakeFileFilename, lineno + 1, r.err)
           /\ rpc' = IF r.err = NoError THEN "scan" ELSE "done"

\* line 195: the input is at its end, ReadFromReader returns nil
ScanEnd ==
    /\ rpc = "scan"
    /\ rpc' = "done"
    /\ rerr' = NoError
    /\ UNCHANGED <<vars, lineno, cur>>

----------------------------------------------------------------------------
(* path/filepath of the Go library, on clean slash-separated paths *)

Slash == "/"
DotText == <<".">>

Max(S) == CHOOSE x \in S : \A y \in S : x >= y

LastSlash(p) ==
    LET at == { i \in 1 .. Len(p) : p[i] = Slash } IN IF at = {} THEN 0 ELSE Max(at)

\* filepath.Base
Base(p) ==
    IF p = <<>> THEN DotText
    ELSE IF p = <<Slash>> THEN <<Slash>>
    ELSE SubSeq(p, LastSlash(p) + 1, Len(p))

\* filepath.Dir
Dir(p) ==
    IF LastSlash(p) = 0 THEN DotText
    ELSE IF LastSlash(p) = 1 THEN <<Slash>>
    ELSE SubSeq(p, 1, LastSlash(p) - 1)

\* filepath.Clean(filepath.Join(dir, name)) for a clean dir and a name
Join(dir, name) ==
    IF dir = DotText \/ dir = <<>> THEN name
    ELSE IF dir = <<Slash>> THEN <<Slash>> \o name
    ELSE (dir \o <<Slash>>) \o name

----------------------------------------------------------------------------
(* platform.go (in vars.go): PlatformSpecific and the file names it forms *)

windowsPlatform ==
    [objsuffix |-> <<".", "o", "b", "j">>, exesuffix |-> <<".", "e", "x", "e">>,
     libprefix |-> <<>>, libsuffix |-> <<".", "l", "i", "b">>,
     dllprefix |-> <<>>, dllsuffix |-> <<".", "d", "l", "l">>]

macosPlatform ==
    [objsuffix |-> <<".", "o">>, exesuffix |-> <<>>,
     libprefix |-> <<"l", "i", "b">>, libsuffix |-> <<".", "a">>,
     dllprefix |-> <<"l", "i", "b">>, dllsuffix |-> <<".", "d", "y", "l", "i", "b">>]

elfPlatform ==
    [objsuffix |-> <<".", "o">>, exesuffix |-> <<>>,
     libprefix |-> <<"l", "i", "b">>, libsuffix |-> <<".", "a">>,
     dllprefix |-> <<"l", "i", "b">>, dllsuffix |-> <<".", "s", "o">>]

\* init(): the PlatformSpecific of the build host
platform(os) ==
    CASE os = "windows" -> windowsPlatform
      [] os = "darwin" -> macosPlatform
      [] OTHER -> elfPlatform

\* init(): the platform names otherPlatformNamesRegexp is built from
platforms ==
    { <<"a", "i", "x">>, <<"d", "a", "r", "w", "i", "n">>,
      <<"d", "r", "a", "g", "o", "n", "f", "l", "y">>,
      <<"f", "r", "e", "e", "b", "s", "d">>, <<"i", "l", "l", "u", "m", "o", "s">>,
      <<"i", "o", "s">>, <<"l", "i", "n", "u", "x">>, <<"n", "e", "t", "b", "s", "d">>,
      <<"o", "p", "e", "n", "b", "s", "d">>, <<"s", "o", "l", "a", "r", "i", "s">>,
      <<"w", "i", "n", "d", "o", "w", "s">> }

\* otherPlatformNamesRegexp.MatchString(name): "_<platform>." occurs in the
\* name, for a platform other than the host
OtherPlatformName(name, os) ==
    \E p \in platforms \ {GoosText(os)} : Index(name, (<<"_">> \o p) \o DotText) # -1

\* a formFilename that puts the prefix before every base name
formFilenameAlways(prefix, path, suffix) ==
    LET b1 == prefix \o Base(path)
        b2 == IF suffix # <<>> /\ ~HasSuffix(b1, suffix) THEN b1 \o suffix ELSE b1
    IN  Join(Dir(path), b2)

formFilename(prefix, path, suffix) ==
    LET b0 == Base(path)
        b1 == IF prefix # <<>> /\ ~HasPrefix(b0, prefix) THEN prefix \o b0 ELSE b0
        b2 == IF suffix # <<>> /\ ~HasSuffix(b1, suffix) THEN b1 \o suffix ELSE b1
    IN  Join(Dir(path), b2)

LibFilename(p, path) == formFilename(p.libprefix, path, p.libsuffix)
DllFilename(p, path) == formFilename(p.dllprefix, path, p.dllsuffix)
ExeFilename(p, path) == formFilename(<<>>, path, p.exesuffix)
ObjFilename(p, path) == formFilename(<<>>, path, p.objsuffix)

\* PlatformSpecific.PluginFilename is called by dmake.go and util.go and is
\* defined in no file at hand; a plugin is named as a dynamic library here
PluginFilename(p, path) == formFilename(p.dllprefix, path, p.dllsuffix)

----------------------------------------------------------------------------
(* enums.go: OutputType, Action *)

UnknownOutputType == "unknown"
DllOutputType == "dll"
PluginOutputType == "plugin"
ExeOutputType == "exe"
LibOutputType == "lib"

OutputTypes == {DllOutputType, PluginOutputType, ExeOutputType, LibOutputType}

Building == "build"
Cleaning == "clean"
Installing == "install"

\* util.go: FilenameForType (which panics on the unknown type)
FilenameForType(os, outputtype, name) ==
    CASE outputtype = DllOutputType -> DllFilename(platform(os), name)
      [] outputtype = PluginOutputType -> PluginFilename(platform(os), name)
      [] outputtype = ExeOutputType -> ExeFilename(platform(os), name)
      [] outputtype = LibOutputType -> LibFilename(platform(os), name)
      [] OTHER -> name

----------------------------------------------------------------------------
(* util.go: Glob, ExpandGlobs, SourceFiles, DefinesMain                     *)
(* A directory is seen through the names of its entries.                   *)

ErrBadPattern == "syntax error in pattern"

FileApp == <<"a", "p", "p", ".", "c", "p", "p">>
FileIo == <<"i", "o", "_", "w", "i", "n", "d", "o", "w", "s", ".", "c">>
FileLib == <<"l", "i", "b", ".", "c">>
FileMain == <<"m", "a", "i", "n", ".", "c">>
DirA == <<"a">>
DirSrc == <<"s", "r", "c">>

\* the names of the model's world, in the (lexical) order filepath.Glob lists them
NameOrder == <<DirA, FileApp, FileIo, FileLib, FileMain, DirSrc>>

Sorted(S) == SelectSeq(NameOrder, LAMBDA n : n \in S)

\* filepath.Match for the patterns of the model: "[" is malformed, a leading
\* "*" matches any run of characters of a name, anything else is literal
BadPattern(pattern) == \E i \in 1 .. Len(pattern) : pattern[i] = "["

Match(pattern, name) ==
    IF pattern # <<>> /\ Head(pattern) = "*" THEN HasSuffix(name, Tail(pattern))
    ELSE name = pattern

\* a Glob that keeps the files named for another platform
GlobUnfiltered(entries, pattern, os) ==
    IF BadPattern(pattern) THEN [filenames |-> <<>>, matched |-> FALSE, err |-> ErrBadPattern]
    ELSE LET matches == Sorted({ n \in entries : Match(pattern, n) })
         IN  [filenames |-> matches, matched |-> Len(matches) > 0, err |-> NoError]

\* Glob: the matches that are not named for another platform
Glob(entries, pattern, os) ==
    IF BadPattern(pattern) THEN [filenames |-> <<>>, matched |-> FALSE, err |-> ErrBadPattern]
    ELSE LET matches == Sorted({ n \in entries : Match(pattern, n) })
             filenames == SelectSeq(matches, LAMBDA n : ~OtherPlatformName(n, os))
         IN  [filenames |-> filenames, matched |-> Len(filenames) > 0, err |-> NoError]

\* ExpandGlobs, on the patterns that are left of the list
RECURSIVE ExpandPatterns(_, _, _)
ExpandPatterns(entries, patterns, os) ==
    IF patterns = <<>> THEN [filenames |-> <<>>, err |-> NoError]
    ELSE LET g == Glob(entries, Head(patterns), os)
             rest == ExpandPatterns(entries, Tail(patterns), os)
         IN  IF g.err # NoError THEN [filenames |-> <<>>, err |-> g.err]
             ELSE IF rest.err # NoError THEN rest
             ELSE [filenames |-> g.filenames \o rest.filenames, err |-> NoError]

ExpandGlobs(entries, patterns, os) == ExpandPatterns(entries, Fields(patterns), os)

UnknownLanguage == "language not recognized"
CLanguage == "c"
CplusplusLanguage == "c++"
ObjcLanguage == "objc"
ObjcplusplusLanguage == "objc++"

languageExtension ==
    [l \in {CplusplusLanguage, CLanguage, ObjcLanguage, ObjcplusplusLanguage} |->
        CASE l = CplusplusLanguage ->
                << <<"*", ".", "c", "p", "p">>, <<"*", ".", "c", "c">>,
                   <<"*", ".", "c", "x", "x">>, <<"*", ".", "c", "+", "+">> >>
          [] l = CLanguage -> << <<"*", ".", "c">> >>
          [] l = ObjcLanguage -> << <<"*", ".", "m">> >>
          [] l = ObjcplusplusLanguage -> << <<"*", ".", "m", "m">> >>]

\* the matches of the first pattern of a language that matches anything
FirstMatch(entries, patterns, os) ==
    LET hits == { i \in 1 .. Len(patterns) : Glob(entries, patterns[i], os).matched }
    IN  IF hits = {} THEN <<>> ELSE Glob(entries, patterns[Min(hits)], os).filenames

\* SourceFiles ranges over the map languageExtension, and Go fixes no order
\* for that: every language with a match can be the one returned
SourceFiles(entries, os) ==
    LET found == { l \in DOMAIN languageExtension :
                      FirstMatch(entries, languageExtension[l], os) # <<>> }
    IN  IF found = {} THEN { [paths |-> <<>>, lang |-> UnknownLanguage] }
        ELSE { [paths |-> FirstMatch(entries, languageExtension[l], os), lang |-> l] :
                  l \in found }

\* DefinesMain: some line of the file matches mainFunctionRegexp
DefinesMain(path) == path = FileMain

----------------------------------------------------------------------------
(* dmake.go: the Dmake struct and the operations of one directory run *)

ErrNoSources == "no C, Objective-C++, Objective-C or C++ source files found"
ErrSrcsNoMatch == "SRCS matches no source files"
ErrDirsNoMatch == "DIRS matches no names"
ErrConflict == "definition conflicts with output type"
ErrReadFile == "cannot read .dmake"
ErrChdir == "os.Chdir failed"
ErrDcc == "dcc failed"
ErrInstall == "install failed"

SRCSKey == <<"S", "R", "C", "S">>
DIRSKey == <<"D", "I", "R", "S">>
PREFIXKey == <<"P", "R", "E", "F", "I", "X">>
DLLKey == <<"D", "L", "L">>
PLUGINKey == <<"P", "L", "U", "G", "I", "N">>
EXEKey == <<"E", "X", "E">>
LIBKey == <<"L", "I", "B">>

SrcText == <<"s", "r", "c">>
SourceText == <<"s", "o", "u", "r", "c", "e">>

NewDmake(dir, outputName, installPrefix) ==
    LET basename == Base(dir)
        defaultoutput == IF basename = SrcText \/ basename = SourceText
                         THEN Base(Dir(dir)) ELSE basename
    IN  [sourceFiles |-> <<>>,
         outputtype |-> UnknownOutputType,
         outputname |-> IF outputName # <<>> THEN outputName ELSE defaultoutput,
         outputnameDefaulted |-> (outputName = <<>>),
         defaultoutput |-> defaultoutput,
         installprefix |-> installPrefix,
         directories |-> <<>>]

HaveDirs(dm) == Len(dm.directories) > 0

SetOutputType(dm, outputtype, os) ==
    [dm EXCEPT !.outputtype = outputtype,
               !.outputname = IF dm.outputname = <<>>
                              THEN FilenameForType(os, outputtype, dm.defaultoutput)
                              ELSE @]

SetOutputNameFromType(dm, os) ==
    [dm EXCEPT !.outputname = FilenameForType(os, dm.outputtype, dm.outputname)]

\* an inference that lets the dll and plugin flags decide first
DetermineOutputTypeFlagsFirst(dm, dll, plugin) ==
    IF dll THEN DllOutputType
    ELSE IF plugin THEN PluginOutputType
    ELSE IF \E i \in 1 .. Len(dm.sourceFiles) : DefinesMain(dm.sourceFiles[i]) THEN ExeOutputType
    ELSE LibOutputType

DetermineOutputType(dm, dll, plugin) ==
    IF \E i \in 1 .. Len(dm.sourceFiles) : DefinesMain(dm.sourceFiles[i]) THEN ExeOutputType
    ELSE IF dll THEN DllOutputType
    ELSE IF plugin THEN PluginOutputType
    ELSE LibOutputType

\* a checkVar that replaces the type it finds set
checkVarReplacing(r, vs, name, outputtype, os) ==
    IF r.err # NoError \/ ~Found(vs, name) THEN r
    ELSE [dm |-> [r.dm EXCEPT !.outputtype = outputtype,
                              !.outputname = FilenameForType(os, outputtype, vs[name].value)],
          err |-> NoError]

\* checkVar of InitFromVars, after the checks before it gave r
checkVar(r, vs, name, outputtype, os) ==
    IF r.err # NoError \/ ~Found(vs, name) THEN r
    ELSE IF r.dm.outputtype # UnknownOutputType /\ r.dm.outputtype # outputtype
         THEN [dm |-> r.dm, err |-> ErrConflict]
    ELSE [dm |-> [r.dm EXCEPT !.outputtype = outputtype,
                              !.outputname = FilenameForType(os, outputtype, vs[name].value)],
          err |-> NoError]

\* InitFromVars: the receiver after it, and the error it returns
InitFromVars(dm, vs, entries, os) ==
    LET srcs == ExpandGlobs(entries, GetString(vs, SRCSKey), os)
        dm1 == IF Found(vs, SRCSKey) THEN [dm EXCEPT !.sourceFiles = srcs.filenames] ELSE dm
        dm2 == IF Found(vs, PREFIXKey) /\ dm1.installprefix = <<>>
               THEN [dm1 EXCEPT !.installprefix = vs[PREFIXKey].value] ELSE dm1
        dirs == ExpandGlobs(entries, GetString(vs, DIRSKey), os)
        dm3 == IF Found(vs, DIRSKey) THEN [dm2 EXCEPT !.directories = dirs.filenames] ELSE dm2
        c0 == [dm |-> dm3, err |-> NoError]
        c1 == checkVar(c0, vs, DLLKey, DllOutputType, os)
        c2 == checkVar(c1, vs, PLUGINKey, PluginOutputType, os)
        c3 == checkVar(c2, vs, EXEKey, ExeOutputType, os)
    IN  IF Found(vs, SRCSKey) /\ srcs.err # NoError THEN [dm |-> dm1, err |-> srcs.err]
        ELSE IF Found(vs, SRCSKey) /\ srcs.filenames = <<>> THEN [dm |-> dm1, err |-> ErrSrcsNoMatch]
        ELSE IF Found(vs, DIRSKey) /\ dirs.err # NoError THEN [dm |-> dm3, err |-> dirs.err]
        ELSE IF Found(vs, DIRSKey) /\ dirs.filenames = <<>> THEN [dm |-> dm3, err |-> ErrDirsNoMatch]
        ELSE checkVar(c3, vs, LIBKey, LibOutputType, os)

\* ReadDmakefile: file is what vars.ReadFromFile gives, "absent" when there
\* is no .dmake (which is no error), "error" when it cannot be read or
\* parsed, else the Vars read
ReadDmakefile(dm, file, entries, os) ==
    IF file.state = "absent" THEN [dm |-> dm, err |-> NoError]
    ELSE IF file.state = "error" THEN [dm |-> dm, err |-> ErrReadFile]
    ELSE InitFromVars(dm, file.vars, entries, os)

\* a Run that goes on to build whenever sub-directories are declared
NoSourcesUnlessDirs(dm, src) ==
    Len(IF Len(dm.sourceFiles) < 1 THEN src.paths ELSE dm.sourceFiles) < 1 /\ ~HaveDirs(dm)

\* Run, lines 86-99: whether the run ends for want of source files, src
\* being what SourceFiles() would return
NoSources(dm, src) ==
    Len(IF Len(dm.sourceFiles) < 1 THEN src.paths ELSE dm.sourceFiles) < 1

\* Run, lines 86-110: the receiver once the source files and the output
\* type are settled
Resolve(dm, src, dll, plugin, os) ==
    LET d1 == IF Len(dm.sourceFiles) < 1 THEN [dm EXCEPT !.sourceFiles = src.paths] ELSE dm
        d2 == [d1 EXCEPT !.outputtype = DetermineOutputType(d1, dll, plugin)]
    IN  IF d1.outputtype # UnknownOutputType THEN d1
        ELSE IF d2.outputnameDefaulted THEN SetOutputNameFromType(d2, os)
        ELSE d2

\* a Run that goes on to install whatever BuildAction returned
AfterBuildAlways(act, err) == IF act = Installing THEN "install" ELSE "ret"

\* Run, lines 116-124: what follows BuildAction returning err, "install"
\* or "ret"
AfterBuild(act, err) == IF err = NoError /\ act = Installing THEN "install" ELSE "ret"

\* installWithUsrBinInstall and installByCopyingFile: the file they write,
\* filepath.Join(destdir, filename), and its mode
installfile(filename, destdir, filemode) ==
    [dst |-> Join(destdir, filename), mode |-> filemode]

\* InstallAction: the arguments of platform.installfile
InstallArgs(dm) ==
    LET path == IF dm.installprefix = <<>> THEN DotText ELSE dm.installprefix
        dest == Join(path, IF dm.outputtype = ExeOutputType THEN <<"b", "i", "n">>
                           ELSE <<"l", "i", "b">>)
    IN  [filename |-> dm.outputname,
         destdir |-> Join(dest, dm.outputname),
         filemode |-> IF dm.outputtype = ExeOutputType THEN "0555" ELSE "0444"]

----------------------------------------------------------------------------
(* The world of a run: a directory tree and what each directory holds *)

RootDir == <<Slash, "p">>

\* the sub-directories of a directory of the tree
SubDirs(path) ==
    IF path = RootDir THEN {DirA, DirSrc}
    ELSE IF path = Join(RootDir, DirA) THEN {DirSrc}
    ELSE {}

\* the files a directory may hold
FileSets == { {}, {FileLib, FileMain}, {FileApp, FileIo} }

Entries(path, files) == SubDirs(path) \cup files

\* the .dmake files a directory may hold, as the Vars read from them
None == <<"none">>

With(vs, key, value) == IF value = None THEN vs ELSE SetValue(vs, key, value)

RECURSIVE WithKinds(_, _)
WithKinds(vs, keys) ==
    IF keys = {} THEN vs
    ELSE LET k == CHOOSE x \in keys : TRUE
         IN  WithKinds(SetValue(vs, k, <<"n">>), keys \ {k})

SrcsValues == { <<"*", ".", "c">>, <<"*", ".", "m">>, <<"[">> }
DirsValues == { DirSrc, (DirA \o <<" ">>) \o DirSrc, (FileLib \o <<" ">>) \o DirA,
                <<"z", "z">> }
KindKeys == { {DLLKey}, {PLUGINKey}, {EXEKey}, {LIBKey}, {DLLKey, EXEKey} }

ConfigParts ==
    [srcs : {None}, dirs : DirsValues, kinds : {{}}, prefix : {None}]
    \cup [srcs : SrcsValues, dirs : {None}, kinds : {{}}, prefix : {None}]
    \cup [srcs : {None}, dirs : {None}, kinds : KindKeys, prefix : {None}]
    \cup [srcs : {<<"*", ".", "c">>}, dirs : {None, DirA}, kinds : {{LIBKey}}, prefix : {<<"q">>}]

Config(c, os) ==
    WithKinds(
        With(With(With(SetValue(SetValue(EmptyVars, OSKey, GoosText(os)), ARCHKey, GoarchText),
                       SRCSKey, c.srcs), DIRSKey, c.dirs), PREFIXKey, c.prefix),
        c.kinds)

\* what vars.ReadFromFile(".dmake") can give: no such file, a file that
\* cannot be read or parsed, or the Vars read
DmakeFiles(os) ==
    { [state |-> "absent", vars |-> EmptyVars], [state |-> "error", vars |-> EmptyVars] }
    \cup { [state |-> "read", vars |-> Config(c, os)] : c \in ConfigParts }

----------------------------------------------------------------------------
(* util.go: ChangeDirectory, CwdRestorer *)

\* ChangeDirectory(path) in the directory at: the CwdRestorer and the
\* directory the process is in afterwards
ChangeDirectory(at, path) ==
    IF path \in SubDirs(at)
    THEN [saved |-> [path |-> at, err |-> NoError], cwd |-> Join(at, path)]
    ELSE [saved |-> [path |-> at, err |-> ErrChdir], cwd |-> at]

\* CwdRestorer.Restore: the directory the process is in afterwards
Restore(r, at) == IF r.err = NoError THEN r.path ELSE at

----------------------------------------------------------------------------
(* Frames: one per active call of Dmake.Run *)

NoSaved == [path |-> <<>>, err |-> NoError]

Frame(dm) ==
    [dm |-> dm,
     pc |-> "read",          \* "read", "dirs", "wait", "sources", "act", "install", "ret"
     files |-> {},           \* the files of the directory of the run
     i |-> 1,                \* Directories: index of the next directory
     result |-> NoError,     \* Directories: the named result
     savedCwd |-> NoSaved,   \* Directories: savedCwd of the iteration
     err |-> NoError,        \* what Run returned, once pc = "ret"
     startCwd |-> <<>>,      \* the directory Directories was called in
     attempts |-> <<>>,      \* Directories: the paths tried, with the errors
     walked |-> FALSE,       \* Directories has returned
     walkResult |-> NoError, \* what it returned
     walkCwd |-> <<>>,       \* the directory it returned in
     ran |-> <<>>]           \* the external actions of the run, in order

Top == stack[Len(stack)]

SetTop(f) == [stack EXCEPT ![Len(stack)] = f]

Returned(f, err) == [f EXCEPT !.pc = "ret", !.err = err]

\* Directories returns err in the directory at, and Run goes on from there
\* (lines 80-84)
WalkReturned(f, err, at) ==
    LET g == [f EXCEPT !.walked = TRUE, !.walkResult = err, !.walkCwd = at]
    IN  IF err # NoError THEN Returned(g, err) ELSE [g EXCEPT !.pc = "sources"]

----------------------------------------------------------------------------
(* Actions of Dmake.Run and Dmake.Directories *)

\* Run, lines 74-84: ReadDmakefile in a directory holding files and the
\* .dmake file given
RunRead(file, files) ==
    /\ stack # <<>>
    /\ Top.pc = "read"
    /\ LET r == ReadDmakefile(Top.dm, file, Entries(cwd, files), goos)
           f == [Top EXCEPT !.dm = r.dm, !.files = files]
       IN  stack' = SetTop(IF r.err # NoError THEN Returned(f, r.err)
                           ELSE IF HaveDirs(r.dm)
                                THEN [f EXCEPT !.pc = "dirs", !.startCwd = cwd]
                           ELSE [f EXCEPT !.pc = "sources"])
    /\ UNCHANGED <<cwd, keepgoing, action, dllflag, pluginflag>>

\* Directories, lines 149-159: the next directory is entered and a new
\* Dmake runs there, or ChangeDirectory fails and Directories returns
DirEnter ==
    /\ stack # <<>>
    /\ Top.pc = "dirs"
    /\ Top.i <= Len(Top.dm.directories)
    /\ LET path == Top.dm.directories[Top.i]
           c == ChangeDirectory(cwd, path)
       IN  IF c.saved.err # NoError
           THEN /\ stack' = SetTop(WalkReturned(
                                [Top EXCEPT !.attempts = Append(@, [path |-> path, err |-> c.saved.err])],
                                c.saved.err, cwd))
                /\ cwd' = cwd
           ELSE /\ stack' = Append(SetTop([Top EXCEPT !.pc = "wait", !.savedCwd = c.saved]),
                                   Frame(NewDmake(path, <<>>, Top.dm.installprefix)))
                /\ cwd' = c.cwd
    /\ UNCHANGED <<keepgoing, action, dllflag, pluginflag>>

\* Directories, lines 159-174: the Run of the directory has returned
DirLeave ==
    /\ Len(stack) > 1
    /\ Top.pc = "ret"
    /\ LET err == Top.err
           parent == stack[Len(stack) - 1]
           path == parent.dm.directories[parent.i]
           p == [parent EXCEPT !.attempts = Append(@, [path |-> path, err |-> err])]
       IN  IF err # NoError /\ ~keepgoing
           THEN /\ stack' = Append(SubSeq(stack, 1, Len(stack) - 2), WalkReturned(p, err, cwd))
                /\ cwd' = cwd
           ELSE /\ stack' = Append(SubSeq(stack, 1, Len(stack) - 2),
                                   [p EXCEPT !.result = IF err # NoError /\ @ = NoError THEN err ELSE @,
                                             !.i = @ + 1,
                                             !.pc = "dirs"])
                /\ cwd' = Restore(parent.savedCwd, cwd)
    /\ UNCHANGED <<keepgoing, action, dllflag, pluginflag>>

\* Directories, line 175: the list is exhausted
DirsDone ==
    /\ stack # <<>>
    /\ Top.pc = "dirs"
    /\ Top.i > Len(Top.dm.directories)
    /\ stack' = SetTop(WalkReturned(Top, Top.result, cwd))
    /\ UNCHANGED <<cwd, keepgoing, action, dllflag, pluginflag>>

\* Run, lines 86-110: the source files and the output type
RunSources ==
    /\ stack # <<>>
    /\ Top.pc = "sources"
    /\ \E src \in SourceFiles(Entries(cwd, Top.files), goos) :
          stack' = SetTop(
             IF NoSources(Top.dm, src)
             THEN Returned([Top EXCEPT !.dm.sourceFiles = src.paths],
                           IF ~HaveDirs(Top.dm) THEN ErrNoSources ELSE NoError)
             ELSE [Top EXCEPT !.dm = Resolve(Top.dm, src, dllflag, pluginflag, goos),
                              !.pc = "act"])
    /\ UNCHANGED <<cwd, keepgoing, action, dllflag, pluginflag>>

\* Run, lines 112-114: CleanAction, which returns nil
RunClean ==
    /\ stack # <<>>
    /\ Top.pc = "act"
    /\ action = Cleaning
    /\ stack' = SetTop(Returned(
          [Top EXCEPT !.ran = Append(@, [cmd |-> "clean", srcs |-> Top.dm.sourceFiles,
                                         err |-> NoError])],
          NoError))
    /\ UNCHANGED <<cwd, keepgoing, action, dllflag, pluginflag>>

\* Run, lines 116-124: BuildAction runs dcc, which succeeds or fails
RunBuild(ok) ==
    /\ stack # <<>>
    /\ Top.pc = "act"
    /\ action # Cleaning
    /\ LET err == IF ok THEN NoError ELSE ErrDcc
           f == [Top EXCEPT !.ran = Append(@, [cmd |-> "dcc", srcs |-> Top.dm.sourceFiles,
                                               err |-> err, kind |-> Top.dm.outputtype,
                                               output |-> Top.dm.outputname])]
       IN  stack' = SetTop(IF AfterBuild(action, err) = "install"
                           THEN [f EXCEPT !.pc = "install"]
                           ELSE Returned(f, err))
    /\ UNCHANGED <<cwd, keepgoing, action, dllflag, pluginflag>>

\* Run, lines 121-124: InstallAction runs the installer
RunInstall(ok) ==
    /\ stack # <<>>
    /\ Top.pc = "install"
    /\ LET err == IF ok THEN NoError ELSE ErrInstall
       IN  stack' = SetTop(Returned(
              [Top EXCEPT !.ran = Append(@, [cmd |-> "install", srcs |-> Top.dm.sourceFiles,
                                             err |-> err, args |-> InstallArgs(Top.dm)])],
              err))
    /\ UNCHANGED <<cwd, keepgoing, action, dllflag, pluginflag>>

----------------------------------------------------------------------------
(* main.go: the directory loop of main *)

\* lines 815-822: do_dmake_in(dir) returns, with an error or without
MainVisit(ok) ==
    /\ mpc = "loop"
    /\ mi <= Len(mdirs)
    /\ mvisited' = Append(mvisited, mdirs[mi])
    /\ mfailed' = IF ok THEN mfailed ELSE mfailed \cup {mi}
    /\ IF ~ok /\ ~kflag
       THEN /\ mpc' = "exit"
            /\ exitcode' = 1
            /\ mi' = mi
       ELSE /\ mi' = mi + 1
            /\ UNCHANGED <<mpc, exitcode>>
    /\ UNCHANGED <<kflag, mdirs>>

\* line 823: the loop is over and main returns
MainReturn ==
    /\ mpc = "loop"
    /\ mi > Len(mdirs)
    /\ mpc' = "exit"
    /\ exitcode' = 0
    /\ UNCHANGED <<kflag, mdirs, mi, mfailed, mvisited>>

----------------------------------------------------------------------------
(* Specifications *)

ReaderIdle ==
    /\ rpc = "idle" /\ vars = EmptyVars /\ lineno = 0 /\ cur = NoLine /\ rerr = NoError

RunIdle ==
    /\ stack = <<>> /\ cwd = RootDir /\ keepgoing = FALSE /\ action = Building
    /\ dllflag = FALSE /\ pluginflag = FALSE

MainIdle ==
    /\ mpc = "idle" /\ kflag = FALSE /\ mdirs = <<>> /\ mi = 1 /\ mfailed = {}
    /\ mvisited = <<>> /\ exitcode = 0

CallIdle == cpc = "idle" /\ cin = <<>> /\ cout = <<>>

\* ReadDmakefile: vars := make(Vars), then ReadFromFile
InitReader ==
    /\ goos \in Hosts
    /\ rpc = "start" /\ vars = EmptyVars /\ lineno = 0 /\ cur = NoLine /\ rerr = NoError
    /\ RunIdle /\ MainIdle /\ CallIdle

NextReader ==
    \/ ReadStart /\ UNCHANGED <<goos, runVars, mainVars, callVars>>
    \/ (\E ln \in Lines : ScanLine(ln)) /\ UNCHANGED <<goos, runVars, mainVars, callVars>>
    \/ ScanEnd /\ UNCHANGED <<goos, runVars, mainVars, callVars>>

SpecReader == InitReader /\ [][NextReader]_allVars

\* a Dmake for the directory the process is in, its output type set on the
\* command line or left unknown, and Run about to be called on it
InitRun ==
    /\ goos = "linux"
    /\ cwd = RootDir
    /\ keepgoing \in BOOLEAN
    /\ action \in {Building, Cleaning, Installing}
    /\ dllflag = FALSE
    /\ pluginflag = FALSE
    /\ \E t \in OutputTypes \cup {UnknownOutputType} :
          stack = << Frame(IF t = UnknownOutputType THEN NewDmake(RootDir, <<>>, <<>>)
                           ELSE SetOutputType(NewDmake(RootDir, <<>>, <<>>), t, goos)) >>
    /\ ReaderIdle /\ MainIdle /\ CallIdle

NextRun ==
    \/ (\E file \in DmakeFiles(goos), files \in FileSets : RunRead(file, files))
          /\ UNCHANGED <<goos, readerVars, mainVars, callVars>>
    \/ DirEnter /\ UNCHANGED <<goos, readerVars, mainVars, callVars>>
    \/ DirLeave /\ UNCHANGED <<goos, readerVars, mainVars, callVars>>
    \/ DirsDone /\ UNCHANGED <<goos, readerVars, mainVars, callVars>>
    \/ RunSources /\ UNCHANGED <<goos, readerVars, mainVars, callVars>>
    \/ RunClean /\ UNCHANGED <<goos, readerVars, mainVars, callVars>>
    \/ (\E ok \in BOOLEAN : RunBuild(ok)) /\ UNCHANGED <<goos, readerVars, mainVars, callVars>>
    \/ (\E ok \in BOOLEAN : RunInstall(ok)) /\ UNCHANGED <<goos, readerVars, mainVars, callVars>>

Spec == InitRun /\ [][NextRun]_allVars

\* main with directories named on the command line
InitMain ==
    /\ goos \in {"linux"}
    /\ mpc = "loop"
    /\ kflag \in BOOLEAN
    /\ mdirs \in UNION { [1 .. n -> {DirA, DirSrc}] : n \in 1 .. MaxMainDirs }
    /\ mi = 1 /\ mfailed = {} /\ mvisited = <<>> /\ exitcode = 0
    /\ ReaderIdle /\ RunIdle /\ CallIdle

NextMain ==
    \/ (\E ok \in BOOLEAN : MainVisit(ok)) /\ UNCHANGED <<goos, readerVars, runVars, callVars>>
    \/ MainReturn /\ UNCHANGED <<goos, readerVars, runVars, callVars>>

SpecMain == InitMain /\ [][NextMain]_allVars

----------------------------------------------------------------------------
(* Properties of Dmake.Run and Dmake.Directories, under Spec *)

Frames == { stack[k] : k \in 1 .. Len(stack) }

\* the paths Directories tried, in order
AttemptPaths(f) == [j \in 1 .. Len(f.attempts) |-> f.attempts[j].path]

\* the first error among the attempts, NoError if there is none
FirstError(f) ==
    LET bad == { j \in 1 .. Len(f.attempts) : f.attempts[j].err # NoError }
    IN  IF bad = {} THEN NoError ELSE f.attempts[Min(bad)].err

\* the configuration variables that name an output kind
KindVars ==
    { <<DLLKey, DllOutputType>>, <<PLUGINKey, PluginOutputType>>,
      <<EXEKey, ExeOutputType>>, <<LIBKey, LibOutputType>> }

KindsNamed(vs) == { kv[2] : kv \in { x \in KindVars : Found(vs, x[1]) } }

\* C1: after Directories() returns, with or without an error, with or
\* without keep-going, the process working directory is the one that was in
\* effect when Directories() was called.
C1_WalkerRestoresCwd ==
    \A f \in Frames : f.walked => f.walkCwd = f.startCwd

\* C3: with keep-going set the walker attempts every listed directory in
\* order, whatever error an earlier one produced (a failed run or a failure
\* to enter it), and returns the first error; with keep-going clear the
\* first error ends the walk and no later directory is entered.
C3_KeepGoingAttemptsAll ==
    \A f \in Frames :
        f.walked =>
            /\ f.walkResult = FirstError(f)
            /\ Len(f.attempts) <= Len(f.dm.directories)
            /\ AttemptPaths(f) = SubSeq(f.dm.directories, 1, Len(f.attempts))
            /\ keepgoing => Len(f.attempts) = Len(f.dm.directories)
            /\ ~keepgoing =>
                  /\ \A j \in 1 .. Len(f.attempts) - 1 : f.attempts[j].err = NoError
                  /\ FirstError(f) = NoError => Len(f.attempts) = Len(f.dm.directories)

\* C4: once the output type of a descriptor is set (on the command line or
\* by a DLL, PLUGIN, EXE or LIB variable) no later step of the same
\* directory run changes it: inference from the sources is skipped, and a
\* configuration variable naming another kind makes the run fail with the
\* conflict error and leaves the type as it was.
C4_OutputTypeStaysSet ==
    [][ /\ \A k \in 1 .. Len(stack) :
              (k <= Len(stack') /\ stack[k].dm.outputtype # UnknownOutputType)
                 => stack'[k].dm.outputtype = stack[k].dm.outputtype
        /\ (stack # <<>> /\ Top.pc = "read") =>
              \A file \in DmakeFiles(goos) :
                  ( /\ file.state = "read"
                    /\ \/ Cardinality(KindsNamed(file.vars)) > 1
                       \/ /\ Top.dm.outputtype # UnknownOutputType
                          /\ KindsNamed(file.vars) \ {Top.dm.outputtype} # {}
                    /\ \E files \in FileSets : RunRead(file, files) )
                     => /\ stack'[Len(stack)].pc = "ret"
                        /\ stack'[Len(stack)].err # NoError
                        /\ (~Found(file.vars, SRCSKey) /\ ~Found(file.vars, DIRSKey))
                              => stack'[Len(stack)].err = ErrConflict
      ]_allVars

\* a run whose type was set on the command line has read a .dmake naming
\* another kind, and has failed with the conflict error, its type kept
C4_Witness ==
    \E f \in Frames :
        /\ f.pc = "ret"
        /\ f.err = ErrConflict
        /\ f.dm.outputtype = LibOutputType
        /\ f.dm.outputname = <<"p">>

\* C5: dcc is invoked only with a non-empty list of source files: a run
\* that resolves no source stops there without invoking it, with the
\* no-sources error when it declares no sub-directories and with success
\* when it declares some.
C5_DccOnlyWithSources ==
    [][ /\ \A k \in 1 .. Len(stack') :
              \A j \in 1 .. Len(stack'[k].ran) :
                  stack'[k].ran[j].cmd = "dcc" => stack'[k].ran[j].srcs # <<>>
        /\ ( /\ stack # <<>>
             /\ Top.pc = "sources"
             /\ Len(stack') = Len(stack)
             /\ stack'[Len(stack)].dm.sourceFiles = <<>> )
              => /\ stack'[Len(stack)].pc = "ret"
                 /\ stack'[Len(stack)].ran = <<>>
                 /\ stack'[Len(stack)].err =
                       IF HaveDirs(stack'[Len(stack)].dm) THEN NoError ELSE ErrNoSources
      ]_allVars

\* a run with sub-directories, all of them built, and no source of its own
\* has returned nil and has run nothing
C5_Witness ==
    \E f \in Frames :
        /\ f.pc = "ret"
        /\ f.err = NoError
        /\ f.walked
        /\ Len(f.attempts) = 2
        /\ f.dm.sourceFiles = <<>>
        /\ f.ran = <<>>

\* C6: within one run the installer is invoked only when the action is
\* Installing and the dcc of that run has returned success; when dcc fails
\* the run returns that error and nothing is run after it; a Cleaning run
\* invokes neither.
C6_InstallOnlyAfterBuild ==
    \A f \in Frames :
        \A j \in 1 .. Len(f.ran) :
            /\ f.ran[j].cmd = "install" =>
                  /\ action = Installing
                  /\ j > 1
                  /\ f.ran[j - 1].cmd = "dcc"
                  /\ f.ran[j - 1].err = NoError
            /\ (f.ran[j].cmd = "dcc" /\ f.ran[j].err # NoError) =>
                  /\ j = Len(f.ran)
                  /\ f.pc = "ret"
                  /\ f.err = f.ran[j].err
            /\ action = Cleaning => f.ran[j].cmd \notin {"dcc", "install"}

\* an Installing run has built and then installed
C6_Witness ==
    \E f \in Frames :
        /\ action = Installing
        /\ Len(f.ran) = 2
        /\ f.ran[1].cmd = "dcc" /\ f.ran[1].err = NoError
        /\ f.ran[2].cmd = "install"

----------------------------------------------------------------------------
(* Properties of the directory loop of main, under SpecMain *)

\* C7: under keep-going, when a directory named on the command line fails,
\* the process exits with a non-zero status, after visiting the remaining
\* directories; it exits 0 only when every directory succeeded.
C7_KeepGoingExitStatus ==
    mpc = "exit" =>
        /\ (kflag /\ mfailed # {}) => (exitcode # 0 /\ mvisited = mdirs)
        /\ exitcode = 0 => mfailed = {}

----------------------------------------------------------------------------
(* Properties of Vars.ReadFromReader, under SpecReader *)

\* the step that reads a line
LineRead == rpc = "scan" /\ lineno' = lineno + 1

\* C2: for a key K holding u, the line "K += v" leaves K holding u followed
\* by the interpolated v, and the line "K -= v" leaves K holding u with the
\* occurrences of the interpolated v removed; neither line is rejected nor
\* defines another key.
C2_AppendAndSubtract ==
    [][ ( /\ LineRead
          /\ cur'.kind = "assign"
          /\ cur'.key \in LineKeys
          /\ cur'.op \in {PlusEqText, MinusEqText}
          /\ Found(vars, cur'.key) )
           => /\ rerr' = NoError
              /\ DOMAIN vars' = DOMAIN vars
              /\ vars'[cur'.key].value =
                    IF cur'.op = PlusEqText
                    THEN vars[cur'.key].value \o Interpolate(vars, cur'.val)
                    ELSE RemoveAll(vars[cur'.key].value, Interpolate(vars, cur'.val))
      ]_allVars

\* a key part with white space inside it
InnerSpace(key) == Len(Fields(key)) > 1

\* C8: a line whose key part has white space inside it, with an operator or
\* without one, is rejected with an error of the form path:line - reason
\* and defines no variable.
C8_KeyWithSpaceRejected ==
    [][ ( /\ LineRead
          /\ cur'.kind \in {"bare", "assign"}
          /\ InnerSpace(cur'.key) )
           => /\ rpc' = "done"
              /\ rerr' = Fail(dmakeFileFilename, lineno', SpacesMessage)
              /\ vars' = vars
      ]_allVars

\* C9: once the store is seeded, OS and ARCH hold the platform and the
\* architecture of the host, whatever lines have been read.
C9_OsArchKept ==
    rpc \in {"scan", "done"} =>
        /\ Found(vars, OSKey) /\ vars[OSKey].value = GoosText(goos)
        /\ Found(vars, ARCHKey) /\ vars[ARCHKey].value = GoarchText

\* C10: the value of a line "key = value" is interpolated against the store
\* as it stands when the line is read, so that a reference to a key that no
\* earlier line defined gives the empty string, and the line changes the
\* value stored for no other key.
C10_InterpolatedWhenRead ==
    [][ ( /\ LineRead
          /\ cur'.kind = "assign"
          /\ cur'.key \in LineKeys
          /\ cur'.op = EqText )
           => /\ rerr' = NoError
              /\ vars'[cur'.key] = MakeVar(OpEq, Interpolate(vars, cur'.val))
              /\ (cur'.val = <<"$", "{", "L", "}">> /\ ~Found(vars, KeyL))
                    => vars'[cur'.key].value = <<>>
              /\ \A k \in DOMAIN vars \ {cur'.key} : Found(vars', k) /\ vars'[k] = vars[k]
      ]_allVars

\* K was given the value ${L} while L was not defined, and a later line has
\* defined L: K still holds the empty string
C10_Witness ==
    /\ lineno = 2
    /\ cur = [kind |-> "assign", key |-> KeyL, op |-> EqText, sp |-> TRUE, val |-> <<"u">>]
    /\ Found(vars, KeyL) /\ vars[KeyL].value = <<"u">>
    /\ Found(vars, KeyK) /\ vars[KeyK] = MakeVar(OpEq, <<>>)

\* the store as ReadFromReader seeds it
Seeded == SetValue(SetValue(EmptyVars, OSKey, GoosText(goos)), ARCHKey, GoarchText)

\* the message the loop body rejects the text of a line with, NoError if
\* it does not reject it
Rejection(vs, ln) ==
    LET r == ParseLine(vs, LineText(ln))
    IN  IF r.err = Panic THEN NoError ELSE r.err

----------------------------------------------------------------------------
(* Source resolution taken alone: SourceFiles, DetermineOutputType and     *)
(* InitFromVars on the content of one directory                            *)

ResolveNames == {FileApp, FileIo, FileLib, FileMain}

SrcsLists ==
    { <<"*", ".", "c">>,
      <<"*", ".", "c", "p", "p", " ", "*", ".", "c">>,
      <<"*", ".", "m", " ", " ", "*", ".", "c">>,
      <<"*", ".", "m">>,
      FileMain \o <<"\t", "*", ".", "c", "p", "p", " ", "*", ".", "m", "m">>,
      <<"[", " ", "*", ".", "c">> }

NotLoaded == [dm |-> NewDmake(RootDir, <<>>, <<>>), err |-> NoError]

InitResolve ==
    /\ goos \in Hosts
    /\ cpc = "call"
    /\ cin \in [files : SUBSET ResolveNames, dll : BOOLEAN, plugin : BOOLEAN, srcs : SrcsLists]
    /\ cout = [sources |-> <<>>, kind |-> UnknownOutputType, loaded |-> FALSE, load |-> NotLoaded]
    /\ ReaderIdle /\ RunIdle /\ MainIdle

\* SourceFiles() in a directory holding cin.files
CallSourceFiles ==
    /\ cpc = "call"
    /\ Len(cout.sources) < MaxResolutions
    /\ \E src \in SourceFiles(cin.files, goos) :
          cout' = [cout EXCEPT !.sources = Append(@, src)]
    /\ UNCHANGED <<cpc, cin>>

\* DetermineOutputType() on a Dmake whose source files are cin.files
CallDetermineOutputType ==
    /\ cpc = "call"
    /\ cout.kind = UnknownOutputType
    /\ cout' = [cout EXCEPT !.kind = DetermineOutputType(
                   [NewDmake(RootDir, <<>>, <<>>) EXCEPT !.sourceFiles = Sorted(cin.files)],
                   cin.dll, cin.plugin)]
    /\ UNCHANGED <<cpc, cin>>

\* InitFromVars() on the Vars of a .dmake that holds SRCS = cin.srcs
CallInitFromVars ==
    /\ cpc = "call"
    /\ ~cout.loaded
    /\ cout' = [cout EXCEPT
                  !.loaded = TRUE,
                  !.load = InitFromVars(NewDmake(RootDir, <<>>, <<>>),
                                        SetValue(Config([srcs |-> None, dirs |-> None,
                                                         kinds |-> {}, prefix |-> None], goos),
                                                 SRCSKey, cin.srcs),
                                        cin.files, goos)]
    /\ UNCHANGED <<cpc, cin>>

NextResolve ==
    \/ CallSourceFiles /\ UNCHANGED <<goos, readerVars, runVars, mainVars>>
    \/ CallDetermineOutputType /\ UNCHANGED <<goos, readerVars, runVars, mainVars>>
    \/ CallInitFromVars /\ UNCHANGED <<goos, readerVars, runVars, mainVars>>

SpecResolve == InitResolve /\ [][NextResolve]_allVars

\* the language families in the order the specification fixes
FamilyOrder == <<CplusplusLanguage, CLanguage, ObjcLanguage, ObjcplusplusLanguage>>

\* the names of a directory a family's patterns match, other platforms'
\* files left out
FamilyMatches(files, l, os) ==
    { n \in files : /\ \E i \in 1 .. Len(languageExtension[l]) :
                          Match(languageExtension[l][i], n)
                    /\ ~OtherPlatformName(n, os) }

\* the first family of the order that has a match, UnknownLanguage if none has
FirstFamily(files, os) ==
    LET has == { i \in 1 .. Len(FamilyOrder) : FamilyMatches(files, FamilyOrder[i], os) # {} }
    IN  IF has = {} THEN UnknownLanguage ELSE FamilyOrder[Min(has)]

\* C12: default source resolution is deterministic and ordered: it returns
\* the language of the first family, in the order C++, C, Objective-C,
\* Objective-C++, that has a match, with files of that family only, and two
\* resolutions of the same directory return the same files and language.
C12_ResolutionDeterministic ==
    \A i \in 1 .. Len(cout.sources) :
        /\ cout.sources[i].lang = FirstFamily(cin.files, goos)
        /\ cout.sources[i].lang # UnknownLanguage =>
              { cout.sources[i].paths[j] : j \in 1 .. Len(cout.sources[i].paths) }
                 \subseteq FamilyMatches(cin.files, cout.sources[i].lang, goos)
        /\ \A j \in 1 .. Len(cout.sources) : cout.sources[j] = cout.sources[i]

----------------------------------------------------------------------------
(* Further properties of Dmake.Run and Dmake.Directories, under Spec *)

\* the directory the Run of frame k works in
RECURSIVE FrameDir(_)
FrameDir(k) ==
    IF k = 1 THEN RootDir
    ELSE Join(FrameDir(k - 1), stack[k - 1].dm.directories[stack[k - 1].i])

\* the stem a directory gives by default: its base name, or the base name
\* of its parent when it is named src or source
DefaultStem(d) ==
    IF Base(d) = SrcText \/ Base(d) = SourceText THEN Base(Dir(d)) ELSE Base(d)

\* C13: at every directory level, a sub-directory the walker entered
\* through a relative path included, the default output name is the base
\* name of the directory, or of its parent when the directory is named src
\* or source.
C13_DefaultOutputName ==
    \A k \in 1 .. Len(stack) : stack[k].dm.defaultoutput = DefaultStem(FrameDir(k))

----------------------------------------------------------------------------
(* Properties of source resolution, under SpecResolve *)

\* C14: when the kind is not set it is inferred from the sources: it is
\* executable if and only if some source file has a line matching the
\* main-function pattern, whatever the dll and plugin flags; otherwise it is
\* dynamic library when the dll flag is set, else plugin when the plugin
\* flag is set, else static library.
C14_KindInferred ==
    cout.kind # UnknownOutputType =>
        /\ cout.kind = ExeOutputType <=> (\E n \in cin.files : DefinesMain(n))
        /\ cout.kind # ExeOutputType =>
              cout.kind = IF cin.dll THEN DllOutputType
                          ELSE IF cin.plugin THEN PluginOutputType
                          ELSE LibOutputType

\* with both flags set and a source that defines main, the kind is executable
C14_Witness ==
    /\ cin.dll /\ cin.plugin
    /\ FileMain \in cin.files
    /\ cout.kind = ExeOutputType

\* the matches of one pattern, files named for another platform left out
MatchesOf(files, pattern, os) ==
    SelectSeq(NameOrder, LAMBDA n : n \in files /\ Match(pattern, n) /\ ~OtherPlatformName(n, os))

\* the matches of the patterns of a list, concatenated in the order of the list
RECURSIVE MatchesInOrder(_, _, _)
MatchesInOrder(files, patterns, os) ==
    IF patterns = <<>> THEN <<>>
    ELSE MatchesOf(files, Head(patterns), os) \o MatchesInOrder(files, Tail(patterns), os)

WellFormed(patterns) == \A i \in 1 .. Len(patterns) : ~BadPattern(patterns[i])

\* C15: an explicit SRCS list of well-formed patterns resolves to the
\* concatenation, in pattern order, of the matches of each pattern separated
\* by white space, other platforms' files removed; a pattern without a match
\* does not fail by itself, and loading fails, with the matches-no-source-
\* files error, if and only if the whole result is empty.
C15_ExplicitSrcs ==
    (cout.loaded /\ WellFormed(Fields(cin.srcs))) =>
        LET want == MatchesInOrder(cin.files, Fields(cin.srcs), goos)
        IN  /\ cout.load.dm.sourceFiles = want
            /\ want = <<>> => cout.load.err = ErrSrcsNoMatch
            /\ want # <<>> => cout.load.err = NoError

\* the first pattern matches nothing, the second matches lib.c and a file
\* named for another platform: the load succeeds with lib.c alone
C15_Witness ==
    /\ cout.loaded
    /\ goos = "linux"
    /\ cin.srcs = <<"*", ".", "m", " ", " ", "*", ".", "c">>
    /\ cin.files = {FileIo, FileLib}
    /\ cout.load.err = NoError
    /\ cout.load.dm.sourceFiles = <<FileLib>>

----------------------------------------------------------------------------
(* dmake.go: Dmake.InitAction                                              *)
(* The directory is a function from the paths that exist to what they      *)
(* hold, a sequence of lines [text, arg].                                  *)

ErrDccExists == "a .dcc directory already exists, not continuing"
ErrDmakeExists == "a .dmake file already exists, not continuing"
ErrMakefileExists == "a Makefile already exists, not continuing"
Fatal == "log.Fatal"

DccDir == ".dcc"
MakefileName == "Makefile"
CFlagsFile == ".dcc/CFLAGS"
CxxFlagsFile == ".dcc/CXXFLAGS"
LdFlagsFile == ".dcc/LDFLAGS"
LibsFile == ".dcc/LIBS"

ExeText == <<"e", "x", "e">>
LibText == <<"l", "i", "b">>
DllText == <<"d", "l", "l">>
CText == <<"c">>
CppText == <<"c", "+", "+">>
ObjcText == <<"o", "b", "j", "c">>
ObjcppText == <<"o", "b", "j", "c", "+", "+">>
C99Text == <<"c", "9", "9">>
C11Text == <<"c", "1", "1">>
Cpp11Text == <<"c", "+", "+", "1", "1">>
Cpp14Text == <<"c", "+", "+", "1", "4">>
Cpp17Text == <<"c", "+", "+", "1", "7">>
Cpp20Text == <<"c", "+", "+", "2", "0">>
DebugText == <<"d", "e", "b", "u", "g">>
ReleaseText == <<"r", "e", "l", "e", "a", "s", "e">>

defaultBuildMode == DebugText
defaultCStandard == C11Text
defaultCxxStandard == Cpp14Text
defaultReleaseOptim == "-O2"
defaultDebugOptim == "-O0"
defaultWarningOpts == "-Wall -Wextra -pedantic"
readByDccComment == "# This file is read by dcc"

\* Language.String
LanguageText(l) ==
    CASE l = CLanguage -> CText
      [] l = CplusplusLanguage -> CppText
      [] l = ObjcLanguage -> ObjcText
      [] l = ObjcplusplusLanguage -> ObjcppText
      [] OTHER -> <<"?">>

Line(text, arg) == [text |-> text, arg |-> arg]

\* os.Create and the writes that follow: the path holds the lines given
WriteFile(fs, path, lines) == [p \in DOMAIN fs \cup {path} |-> IF p = path THEN lines ELSE fs[p]]

\* os.Stat(path) returns no error
Exists(fs, path) == path \in DOMAIN fs

\* lines 283-336: the loop over the arguments; st holds projectType,
\* outputName, languageStd and buildMode ("" is the empty sequence), and
\* fatal once log.Fatal has been called
RECURSIVE InitArgs(_, _, _)
InitArgs(args, st, language) ==
    IF args = <<>> \/ st.fatal THEN st
    ELSE LET arg == Head(args)
             next ==
               IF arg \in {CText, CppText, ObjcText, ObjcppText}
               THEN IF language # UnknownLanguage /\ LanguageText(language) # arg
                    THEN [st EXCEPT !.fatal = TRUE] ELSE st
               ELSE IF arg \in {ExeText, LibText, DllText}
               THEN IF st.projectType # <<>> THEN [st EXCEPT !.fatal = TRUE]
                    ELSE [st EXCEPT !.projectType = arg]
               ELSE IF arg \in {DebugText, ReleaseText}
               THEN IF st.buildMode # <<>> THEN [st EXCEPT !.fatal = TRUE]
                    ELSE [st EXCEPT !.buildMode = arg]
               ELSE IF arg \in {C99Text, C11Text}
               THEN IF language = CplusplusLanguage \/ st.languageStd # <<>>
                    THEN [st EXCEPT !.fatal = TRUE]
                    ELSE [st EXCEPT !.languageStd = arg]
               ELSE IF arg \in {Cpp11Text, Cpp14Text, Cpp17Text, Cpp20Text}
               THEN IF language = CLanguage \/ st.languageStd # <<>>
                    THEN [st EXCEPT !.fatal = TRUE]
                    ELSE [st EXCEPT !.languageStd = arg]
               ELSE IF st.outputName # <<>> THEN [st EXCEPT !.fatal = TRUE]
                    ELSE [st EXCEPT !.outputName = arg]
         IN  InitArgs(Tail(args), next, language)

\* lines 338-468: the artifacts, once the arguments are accepted
InitCreate(dm, st, fs, language, dll, plugin) ==
    LET outputName == IF st.outputName = <<>> THEN dm.defaultoutput ELSE st.outputName
        buildMode == IF st.buildMode = <<>> THEN defaultBuildMode ELSE st.buildMode
        languageStd ==
            IF st.languageStd # <<>> THEN st.languageStd
            ELSE IF language = CLanguage THEN defaultCStandard
            ELSE IF language = CplusplusLanguage THEN defaultCxxStandard
            ELSE <<>>
        fs1 == IF Exists(fs, DccDir) THEN fs ELSE WriteFile(fs, DccDir, <<>>)
        optionsFilename == IF language = CplusplusLanguage THEN CxxFlagsFile ELSE CFlagsFile
        options ==
            (IF languageStd # <<>> THEN <<Line("-std=", languageStd)>> ELSE <<>>)
            \o <<Line(defaultWarningOpts, <<>>), Line("-g", <<>>)>>
            \o (IF buildMode = ReleaseText
                THEN <<Line("-DNDEBUG", <<>>), Line(defaultReleaseOptim, <<>>)>>
                ELSE <<Line("-DDEBUG", <<>>), Line(defaultDebugOptim, <<>>)>>)
        fs2 == WriteFile(fs1, optionsFilename, options)
        inferred == DetermineOutputType(dm, dll, plugin)
        typeVarName ==
            IF st.projectType = <<>>
            THEN CASE inferred = ExeOutputType -> EXEKey
                   [] inferred = DllOutputType -> DLLKey
                   [] inferred = PluginOutputType -> PLUGINKey
                   [] OTHER -> LIBKey
            ELSE IF st.projectType = DllText THEN DLLKey
            ELSE IF st.projectType = ExeText THEN EXEKey
            ELSE LIBKey
        dccComment == <<Line(readByDccComment, <<>>)>>
        fs3 == IF st.projectType = DllText THEN WriteFile(fs2, LdFlagsFile, dccComment)
               ELSE IF st.projectType = ExeText
                    THEN WriteFile(WriteFile(fs2, LdFlagsFile, dccComment), LibsFile, dccComment)
               ELSE fs2
        fs4 == IF outputName # dm.defaultoutput
               THEN WriteFile(fs3, dmakeFileFilename, <<Line("=", typeVarName), Line("", outputName)>>)
               ELSE fs3
        installDir == IF st.projectType = ExeText THEN "$(prefix)/bin" ELSE "$(prefix/lib"
    IN  WriteFile(fs4, MakefileName, <<Line("install -c", outputName), Line(installDir, <<>>)>>)

NoArgs == [projectType |-> <<>>, outputName |-> <<>>, languageStd |-> <<>>,
           buildMode |-> <<>>, fatal |-> FALSE]

\* an Init that looks for .dcc and .dmake only
InitActionOverMakefile(dm, args, fs, language, dll, plugin) ==
    IF Exists(fs, DccDir) THEN [fs |-> fs, err |-> ErrDccExists]
    ELSE IF Exists(fs, dmakeFileFilename) THEN [fs |-> fs, err |-> ErrDmakeExists]
    ELSE LET st == InitArgs(args, NoArgs, language)
         IN  IF st.fatal THEN [fs |-> fs, err |-> Fatal]
             ELSE [fs |-> InitCreate(dm, st, fs, language, dll, plugin), err |-> NoError]

\* InitAction, language being what SourceFiles() returned: the directory
\* afterwards and the error
InitAction(dm, args, fs, language, dll, plugin) ==
    IF Exists(fs, DccDir) THEN [fs |-> fs, err |-> ErrDccExists]
    ELSE IF Exists(fs, dmakeFileFilename) THEN [fs |-> fs, err |-> ErrDmakeExists]
    ELSE IF Exists(fs, MakefileName) THEN [fs |-> fs, err |-> ErrMakefileExists]
    ELSE LET st == InitArgs(args, NoArgs, language)
         IN  IF st.fatal THEN [fs |-> fs, err |-> Fatal]
             ELSE [fs |-> InitCreate(dm, st, fs, language, dll, plugin), err |-> NoError]

----------------------------------------------------------------------------
(* Init taken alone: dmake init, run once and then once more *)

NameW == <<"w">>
NameP == <<"p">>

InitKeywords ==
    { ExeText, LibText, DllText, CText, CppText, C99Text, Cpp14Text, DebugText, ReleaseText,
      NameW, NameP }

InitArgLists ==
    {<<>>} \cup { <<a>> : a \in InitKeywords } \cup { <<a, b>> : a, b \in InitKeywords }

OldFile == <<Line("old", <<>>)>>

NoFiles == [p \in {} |-> <<>>]

InitDirs ==
    { NoFiles, WriteFile(NoFiles, DccDir, <<>>), WriteFile(NoFiles, dmakeFileFilename, OldFile),
      WriteFile(NoFiles, MakefileName, OldFile) }

InitSources == { {}, {FileLib, FileMain}, {FileApp} }

\* the receiver of InitAction: a Dmake for the directory, its source files
\* set by the caller or not
InitReceiver ==
    [NewDmake(RootDir, <<>>, <<>>) EXCEPT
        !.sourceFiles = IF cin.populated THEN Sorted(cin.files) ELSE <<>>]

InitInit ==
    /\ goos = "linux"
    /\ cpc = "call"
    /\ cin \in [args : InitArgLists, files : InitSources, populated : BOOLEAN,
                flags : { <<FALSE, FALSE>>, <<TRUE, FALSE>>, <<FALSE, TRUE>> }]
    /\ \E fs \in InitDirs :
          cout = [fs |-> fs, before |-> fs, results |-> <<>>, lang |-> UnknownLanguage]
    /\ ReaderIdle /\ RunIdle /\ MainIdle

\* dmake init in the directory as it is
CallInitAction ==
    /\ cpc \in {"call", "again"}
    /\ \E src \in SourceFiles(cin.files, goos) :
          LET r == InitAction(InitReceiver, cin.args, cout.fs, src.lang, cin.flags[1], cin.flags[2])
          IN  cout' = [fs |-> r.fs, before |-> cout.fs,
                       results |-> Append(cout.results, r.err), lang |-> src.lang]
    /\ cpc' = IF cpc = "call" THEN "again" ELSE "done"
    /\ UNCHANGED cin

NextInit == CallInitAction /\ UNCHANGED <<goos, readerVars, runVars, mainVars>>

SpecInit == InitInit /\ [][NextInit]_allVars

----------------------------------------------------------------------------
(* Properties of Init, under SpecInit *)

InitArtifacts == {DccDir, dmakeFileFilename, MakefileName}

LastResult(out) == out.results[Len(out.results)]

\* C16: Init refuses to run when .dcc, .dmake or Makefile exists in the
\* directory, and creates or modifies nothing then; so a second Init after
\* a successful one fails and leaves every file as the first wrote it.
C16_InitRefusesToOverwrite ==
    [][ /\ (cpc \in {"call", "again"} /\ \E p \in InitArtifacts : Exists(cout.fs, p))
              => /\ cout'.fs = cout.fs
                 /\ LastResult(cout') \in {ErrDccExists, ErrDmakeExists, ErrMakefileExists}
        /\ (cpc = "again" /\ cout.results[1] = NoError)
              => /\ cout'.fs = cout.fs
                 /\ LastResult(cout') \in {ErrDccExists, ErrDmakeExists, ErrMakefileExists}
      ]_allVars

\* an Init in an empty directory has succeeded, and a second one has been
\* refused and has left the directory as it was
C16_Witness ==
    /\ cpc = "done"
    /\ cout.results = <<NoError, ErrDccExists>>
    /\ cout.fs = cout.before
    /\ Exists(cout.fs, MakefileName)
    /\ Exists(cout.fs, LdFlagsFile)

\* the category of a keyword of Init
Category(arg) ==
    IF arg \in {ExeText, LibText, DllText} THEN "project kind"
    ELSE IF arg \in {CText, CppText, ObjcText, ObjcppText} THEN "source language"
    ELSE IF arg \in {C99Text, C11Text, Cpp11Text, Cpp14Text, Cpp17Text, Cpp20Text}
         THEN "language standard"
    ELSE IF arg \in {DebugText, ReleaseText} THEN "optimization profile"
    ELSE "output name"

TwoOfACategory(args) ==
    \E i, j \in 1 .. Len(args) : i < j /\ Category(args[i]) = Category(args[j])

\* C17: in Init, two keywords of one category (project kind, source
\* language, language standard, optimization profile, output name) are
\* fatal, and no artifact is created.
C17_TwoKeywordsFatal ==
    ( /\ Len(cout.results) = 1
      /\ DOMAIN cout.before \cap InitArtifacts = {}
      /\ TwoOfACategory(cin.args) )
       => /\ cout.results[1] = Fatal
          /\ cout.fs = cout.before

\* the keyword of the kind the sources of the directory imply
InferredKeyword ==
    IF \E n \in cin.files : DefinesMain(n) THEN ExeText
    ELSE IF cin.flags[1] THEN DllText
    ELSE LibText

\* what InitAction wrote that depends on the kind
KindFiles(fs) == [p \in DOMAIN fs \cap {LdFlagsFile, LibsFile, dmakeFileFilename} |-> fs[p]]

\* C18: an Init given no project-kind keyword writes the same option files
\* (linker options for executable and DLL, libraries options for
\* executable) and the same kind variable in .dmake as an Init given the
\* keyword of the kind inferred from the sources.
C18_InitInfersKind ==
    ( /\ Len(cout.results) = 1
      /\ cout.results[1] = NoError
      /\ ~cin.flags[2]
      /\ \A i \in 1 .. Len(cin.args) : Category(cin.args[i]) # "project kind" )
       => LET given == InitAction(InitReceiver, <<InferredKeyword>> \o cin.args, cout.before,
                                  cout.lang, cin.flags[1], cin.flags[2])
          IN  /\ given.err = NoError
              /\ KindFiles(cout.fs) = KindFiles(given.fs)


----------------------------------------------------------------------------
(* main.go: the positional arguments of main                                *)

dll_file_type == "--dll"
exe_file_type == "--exe"
lib_file_type == "--lib"

CleanText == <<"c", "l", "e", "a", "n">>
InstallText == <<"i", "n", "s", "t", "a", "l", "l">>

form_lib_filename(os, stem) ==
    formFilename(platform(os).libprefix, stem, platform(os).libsuffix)

\* the dynamic library takes the prefix of the static one
form_dll_filename(os, stem) ==
    formFilename(platform(os).libprefix, stem, platform(os).dllsuffix)

form_exe_filename(os, stem) == formFilename(<<>>, stem, platform(os).exesuffix)

\* usage(): flag.Usage() then os.Exit(1); nothing after the call runs
Usage == "usage"
Returns(b) == [usage |-> FALSE, ret |-> b]
Exits == [usage |-> TRUE, ret |-> FALSE]

\* checkclean / checkinstall: word is "clean" or "install"
checkword(args, word) ==
    IF Len(args) < 2 THEN Returns(FALSE)
    ELSE IF Len(args) > 2 \/ args[2] # word THEN Exits
    ELSE Returns(TRUE)

checkclean(args) == checkword(args, CleanText)
checkinstall(args) == checkword(args, InstallText)

\* the globals main has set when the switch on flag.Arg(0) is left, or when
\* usage() ended the process inside it
MainState(outcome, cleaning, installing, type, name, dirs) ==
    [outcome |-> outcome, cleaning |-> cleaning, installing |-> installing,
     output_file_type |-> type, output_filename |-> name,
     subdirectory_names |-> dirs]

\* case "dll", "exe", "lib": the type and the name, then
\* if cleaning = checkclean(); !cleaning { installing = checkinstall() }
KindCase(args, type, name) ==
    LET c == checkclean(args)
        i == checkinstall(args)
    IN  IF c.usage THEN MainState(Usage, FALSE, FALSE, type, name, <<>>)
        ELSE IF c.ret THEN MainState("do_dmake", TRUE, FALSE, type, name, <<>>)
        ELSE IF i.usage THEN MainState(Usage, FALSE, FALSE, type, name, <<>>)
        ELSE MainState("do_dmake", FALSE, i.ret, type, name, <<>>)

\* main from flag.Parse() to the call of do_dmake or the loop over the
\* sub-directories; stem is default_output_filename
MainArgs(os, args, oflag, stem) ==
    LET named(formed) == IF oflag # <<>> THEN oflag ELSE formed
    IN  IF args = <<>> THEN MainState("do_dmake", FALSE, FALSE, "", stem, <<>>)
        ELSE CASE args[1] = InstallText ->
                    MainState(IF Len(args) > 1 THEN Usage ELSE "do_dmake",
                              FALSE, TRUE, "", stem, <<>>)
               [] args[1] = CleanText ->
                    MainState(IF Len(args) > 1 THEN Usage ELSE "do_dmake",
                              TRUE, FALSE, "", stem, <<>>)
               [] args[1] = DllText ->
                    KindCase(args, dll_file_type, named(form_dll_filename(os, stem)))
               [] args[1] = ExeText ->
                    KindCase(args, exe_file_type, named(form_exe_filename(os, stem)))
               [] args[1] = LibText ->
                    KindCase(args, lib_file_type, named(form_lib_filename(os, stem)))
               [] OTHER -> MainState("subdirectories", FALSE, FALSE, "", stem, args)

\* ---- the command lines given to main
MaxArgs == 3

ArgWords == {ExeText, LibText, DllText, CleanText, InstallText, DirA}

ArgLists == UNION { [1 .. n -> ArgWords] : n \in 0 .. MaxArgs }

InitArgsMain ==
    /\ goos \in Hosts
    /\ cpc = "call"
    /\ cin \in [args : ArgLists, oflag : {<<>>, NameW}]
    /\ cout = <<>>
    /\ ReaderIdle /\ RunIdle /\ MainIdle

CallMainArgs ==
    /\ cpc = "call"
    /\ cpc' = "done"
    /\ cout' = MainArgs(goos, cin.args, cin.oflag, Base(RootDir))
    /\ UNCHANGED cin

NextArgs == CallMainArgs /\ UNCHANGED <<goos, readerVars, runVars, mainVars>>

SpecArgs == InitArgsMain /\ [][NextArgs]_allVars

KindWords == {ExeText, LibText, DllText}

\* C19: after a project kind, "clean" as the second and last argument
\* selects cleaning and "install" selects installing; the usage error is
\* given exactly when the second argument is another word or a third
\* argument follows.
C19_KindThenAction ==
    (cpc = "done" /\ cin.args # <<>> /\ cin.args[1] \in KindWords) =>
        LET args == cin.args
        IN  /\ (Len(args) = 2 /\ args[2] = CleanText) =>
                (cout.outcome = "do_dmake" /\ cout.cleaning /\ ~cout.installing)
            /\ (Len(args) = 2 /\ args[2] = InstallText) =>
                (cout.outcome = "do_dmake" /\ cout.installing /\ ~cout.cleaning)
            /\ (cout.outcome = Usage) <=>
                (Len(args) > 2 \/ (Len(args) = 2 /\ args[2] \notin {CleanText, InstallText}))


----------------------------------------------------------------------------
(* vars.go: Vars.Interpolate on its own                                     *)

\* ---- the strings given to Interpolate: pieces of text without a "$" and
\* ---- references ${key}, and the stores they are interpolated in
MaxTokens == 3

TextToken(t) == [ref |-> FALSE, text |-> t]
RefToken(k) == [ref |-> TRUE, text |-> k]

Tokens ==
    { TextToken(<<"u">>), TextToken(<<"_", "v">>), TextToken(<<" ">>),
      TextToken(<<"}">>), TextToken(<<"{">>),
      RefToken(KeyK), RefToken(KeyL), RefToken(KeyKL), RefToken(<<>>) }

TokenLists == UNION { [1 .. n -> Tokens] : n \in 0 .. MaxTokens }

\* the text of a token as it is written in the string
Written(t) == IF t.ref THEN (<<"$", "{">> \o t.text) \o <<"}">> ELSE t.text

RECURSIVE WrittenAll(_)
WrittenAll(ts) == IF ts = <<>> THEN <<>> ELSE Written(Head(ts)) \o WrittenAll(Tail(ts))

\* vars.SetValue(k, v) for each key of the store that is defined
Stores ==
    { With(With(EmptyVars, KeyK, vk), KeyL, vl) :
        vk \in {None, <<"x">>, <<"$", "{", "L", "}">>}, vl \in {None, <<"y", "z">>} }

InitInterpolate ==
    /\ goos \in {"linux"}
    /\ cpc = "call"
    /\ cin \in [store : Stores, tokens : TokenLists]
    /\ cout = <<>>
    /\ ReaderIdle /\ RunIdle /\ MainIdle

CallInterpolate ==
    /\ cpc = "call"
    /\ cpc' = "done"
    /\ cout' = Interpolate(cin.store, WrittenAll(cin.tokens))
    /\ UNCHANGED cin

NextInterpolate == CallInterpolate /\ UNCHANGED <<goos, readerVars, runVars, mainVars>>

SpecInterpolate == InitInterpolate /\ [][NextInterpolate]_allVars

\* what a token stands for: the value of the key, nothing for an undefined
\* key, the text itself outside a reference
Meaning(store, t) ==
    IF ~t.ref THEN t.text
    ELSE IF t.text \in DOMAIN store THEN store[t.text].value
    ELSE <<>>

RECURSIVE MeaningAll(_, _)
MeaningAll(store, ts) ==
    IF ts = <<>> THEN <<>> ELSE Meaning(store, Head(ts)) \o MeaningAll(store, Tail(ts))

\* C20: Interpolate replaces every ${k} by the value of k in the store, or
\* by nothing when k is undefined, and copies the text around the references
\* unchanged and in order; a string without "$" is returned as it is.
C20_InterpolateReplaces ==
    cpc = "done" =>
        /\ cout = MeaningAll(cin.store, cin.tokens)
        /\ (\A i \in 1 .. Len(cin.tokens) : ~cin.tokens[i].ref) =>
                cout = WrittenAll(cin.tokens)

\* prefix ${L} suffix with L undefined gives prefix suffix, and a defined
\* key between two pieces of text gives its value between them
C20_Witness ==
    /\ cpc = "done"
    /\ cin.tokens = <<TextToken(<<"u">>), RefToken(KeyL), TextToken(<<"_", "v">>)>>
    /\ KeyL \notin DOMAIN cin.store
    /\ cout = <<"u", "_", "v">>


----------------------------------------------------------------------------
(* Vars and the file names, one call at a time: cin is the call (the name  *)
(* of the function and its arguments), cout what it returned               *)

\* ---- the strings given to Interpolate, character by character, and the
\* ---- stores: vars.SetValue(k, v) for the keys that are defined
MaxChars == 4

Alphabet == {"$", "{", "}", " ", "A"}

Strings == UNION { [1 .. n -> Alphabet] : n \in 0 .. MaxChars }

KeyA == <<"A">>

\* (the reader defines no key that is empty, and none with a blank in it)
KeyB == <<"}">>

StringStores ==
    { With(With(EmptyVars, KeyA, va), KeyB, vb) :
        va \in {None, <<"x">>}, vb \in {None, <<"$", "A">>} }

InterpolateCalls == [fn : {"Interpolate"}, store : StringStores, s : Strings]

\* vars.Interpolate(s)
CallInterpolateString ==
    /\ cpc = "call"
    /\ cin.fn = "Interpolate"
    /\ cpc' = "done"
    /\ cout' = Interpolate(cin.store, cin.s)
    /\ UNCHANGED cin

\* ---- the calls of Apply: a store over K and L, a key and a right-hand side
ApplyStores ==
    { With(With(EmptyVars, KeyK, vk), KeyL, vl) :
        vk \in {None, <<>>, <<"a", "b">>, <<"a", "a", "b">>, <<"a", "a", "a">>,
                <<"a", "b", "a", "b">>},
        vl \in {None, <<"u">>} }

ApplyValues == { <<>>, <<"a">>, <<"a", "b">>, <<"a", "a">>, <<"b">> }

ApplyCalls ==
    [fn : {"Apply"}, store : ApplyStores, key : {KeyK, KeyL},
     rhs : [op : {OpEq, OpPlusEq, OpMinusEq}, value : ApplyValues]]

\* vars.Apply(key, rhs)
CallApply ==
    /\ cpc = "call"
    /\ cin.fn = "Apply"
    /\ cpc' = "done"
    /\ cout' = Apply(cin.store, cin.key, cin.rhs)
    /\ UNCHANGED cin

\* ---- the calls of FilenameForType: a kind and a stem
Stems ==
    { <<"f">>, <<"l", "i", "b", "f">>, <<"f", ".", "a">>, <<"l", "i", "b">>,
      <<"l", "i">>, <<"f", ".", "s", "o">>, <<"a", Slash, "f">>,
      <<Slash, "p", Slash, "f">>, <<Slash>> }

NameCalls == [fn : {"FilenameForType"}, outputtype : OutputTypes, name : Stems]

\* FilenameForType(outputtype, name), and again on the name it returned
CallFilenameForType ==
    /\ cpc = "call"
    /\ cin.fn = "FilenameForType"
    /\ cpc' = "done"
    /\ cout' = LET once == FilenameForType(goos, cin.outputtype, cin.name)
               IN  [once |-> once, twice |-> FilenameForType(goos, cin.outputtype, once)]
    /\ UNCHANGED cin

\* ---- util.go: ObjectFilename, DependenciesFilename; dmake.go: CleanAction

\* filepath.Ext: the suffix of the last element of path from its last dot on
Ext(path) ==
    LET b == Base(path)
        dots == { i \in 1 .. Len(b) : b[i] = "." }
    IN  IF dots = {} \/ b = <<Slash>> THEN <<>> ELSE SubSeq(b, Max(dots), Len(b))

\* strings.TrimSuffix
TrimSuffix(s, suffix) ==
    IF HasSuffix(s, suffix) THEN SubSeq(s, 1, Len(s) - Len(suffix)) ELSE s

ObjectFilename(srcfile, objsdir, os) ==
    LET dirname == Dir(srcfile)
        basename == Base(srcfile)
        path == Join(Join(dirname, objsdir), basename)
    IN  ObjFilename(platform(os), TrimSuffix(path, Ext(basename)))

\* DependenciesFilename tests the directory of ofile against the global
\* objsdir, its parameter depsdir is used in the other branch only
DependenciesFilename(ofile, depsdir, objsdir) ==
    LET dirname == Dir(ofile)
        basename == Base(ofile)
    IN  IF HasSuffix(dirname, objsdir) THEN Join(dirname, basename)
        ELSE Join(Join(dirname, depsdir), basename)

\* a doClean that removes the directory of path whatever its name
doCleanAnyDir(path, deletable) ==
    <<[op |-> "Remove", path |-> path], [op |-> "RemoveAll", path |-> Dir(path)]>>

\* doClean of CleanAction: the calls of os.Remove and os.RemoveAll it makes
doClean(path, deletable) ==
    <<[op |-> "Remove", path |-> path]>>
    \o (IF Base(Dir(path)) = deletable
        THEN <<[op |-> "RemoveAll", path |-> Dir(path)]>> ELSE <<>>)

\* the loop of CleanAction over the source files that are left
RECURSIVE CleanSources(_, _, _, _)
CleanSources(srcs, objsdir, depsdir, os) ==
    IF srcs = <<>> THEN <<>>
    ELSE LET ofile == ObjectFilename(Head(srcs), objsdir, os)
         IN  (doClean(ofile, objsdir)
              \o doClean(DependenciesFilename(ofile, depsdir, objsdir), depsdir))
             \o CleanSources(Tail(srcs), objsdir, depsdir, os)

\* CleanAction: the removals it asks for, in order, and the nil it returns
\* whatever they did
CleanAction(dm, objsdir, depsdir, os) ==
    [removed |-> <<[op |-> "Remove", path |-> dm.outputname]>>
                 \o CleanSources(dm.sourceFiles, objsdir, depsdir, os),
     err |-> NoError]

\* the names of the objects and deps sub-directories: the defaults and
\* others the environment may give
DccO == <<".", "d", "c", "c", ".", "o">>
DccD == <<".", "d", "c", "c", ".", "d">>

CleanCalls ==
    [fn : {"CleanAction"},
     sourceFiles : {<<>>, <<FileLib>>, <<FileLib, FileMain>>, <<FileApp>>},
     outputname : {<<"p">>, NameW},
     objsdir : {DccO, <<"b", Slash, "o">>},
     depsdir : {DccD, DccO, <<"o">>}]

\* dmake.CleanAction() on a Dmake with the source files and the output name
\* of the call
CallCleanAction ==
    /\ cpc = "call"
    /\ cin.fn = "CleanAction"
    /\ cpc' = "done"
    /\ cout' = CleanAction([NewDmake(RootDir, cin.outputname, <<>>)
                               EXCEPT !.sourceFiles = cin.sourceFiles],
                           cin.objsdir, cin.depsdir, goos)
    /\ UNCHANGED cin

InitCalls ==
    /\ goos \in Hosts
    /\ cpc = "call"
    /\ cin \in InterpolateCalls \cup ApplyCalls \cup NameCalls \cup CleanCalls
    /\ cin.fn \in {"Interpolate", "Apply"} => goos = "linux"
    /\ cout = <<>>
    /\ ReaderIdle /\ RunIdle /\ MainIdle

NextCalls ==
    \/ CallInterpolateString /\ UNCHANGED <<goos, readerVars, runVars, mainVars>>
    \/ CallApply /\ UNCHANGED <<goos, readerVars, runVars, mainVars>>
    \/ CallFilenameForType /\ UNCHANGED <<goos, readerVars, runVars, mainVars>>
    \/ CallCleanAction /\ UNCHANGED <<goos, readerVars, runVars, mainVars>>

SpecCalls == InitCalls /\ [][NextCalls]_allVars


----------------------------------------------------------------------------
(* Properties of single calls, under SpecCalls *)

CallDone(fn) == cpc = "done" /\ cin.fn = fn

NoDollar(s) == \A i \in 1 .. Len(s) : s[i] # "$"

C29_BareReferenceKeepsBlank ==
    CallDone("Interpolate") =>
        \A i \in 1 .. Len(cin.s), j \in 1 .. Len(cin.s) :
            ( /\ cin.s[i] = "$"
              /\ j > i + 1
              /\ cin.s[j] = " "
              /\ cin.s[i + 1] # "{"
              /\ \A k \in (i + 1) .. (j - 1) : cin.s[k] # " "
              /\ NoDollar(SubSeq(cin.s, 1, i - 1))
              /\ NoDollar(SubSeq(cin.s, i + 1, Len(cin.s))) )
                => cout = (SubSeq(cin.s, 1, i - 1)
                           \o GetString(cin.store, SubSeq(cin.s, i + 1, j - 1)))
                          \o SubSeq(cin.s, j, Len(cin.s))

OthersKept ==
    /\ DOMAIN cout = DOMAIN cin.store \cup {cin.key}
    /\ \A k \in DOMAIN cin.store \ {cin.key} : cout[k] = cin.store[k]

\* C22: Apply with += on a key that is not defined leaves the store as
\* Apply with = of the same value leaves it; on a key that is defined it
\* leaves the old value followed by the new one and nothing between them;
\* no other key changes.
C22_AppendConcatenates ==
    (CallDone("Apply") /\ cin.rhs.op = OpPlusEq) =>
        /\ ~Found(cin.store, cin.key) =>
              /\ cout = Apply(cin.store, cin.key, MakeVar(OpEq, cin.rhs.value))
              /\ cout[cin.key] = MakeVar(OpEq, cin.rhs.value)
        /\ Found(cin.store, cin.key) =>
              /\ Len(cout[cin.key].value)
                    = Len(cin.store[cin.key].value) + Len(cin.rhs.value)
              /\ HasPrefix(cout[cin.key].value, cin.store[cin.key].value)
              /\ HasSuffix(cout[cin.key].value, cin.rhs.value)
        /\ OthersKept

\* K holding "ab" has been appended "ab"
C22_Witness ==
    /\ CallDone("Apply")
    /\ cin.rhs = MakeVar(OpPlusEq, <<"a", "b">>)
    /\ cin.key = KeyK
    /\ Found(cin.store, KeyK) /\ cin.store[KeyK].value = <<"a", "b">>
    /\ cout[KeyK].value = <<"a", "b", "a", "b">>

\* the positions of s where an occurrence of sub is found, searching from
\* position i on and going on after the end of each occurrence found
RECURSIVE Occurrences(_, _, _)
Occurrences(s, sub, i) ==
    IF sub = <<>> \/ i + Len(sub) - 1 > Len(s) THEN {}
    ELSE IF SubSeq(s, i, i + Len(sub) - 1) = sub
         THEN {i} \cup Occurrences(s, sub, i + Len(sub))
    ELSE Occurrences(s, sub, i + 1)

\* the characters of s outside these occurrences, in order
Outside(s, sub) ==
    LET keep == { p \in 1 .. Len(s) :
                    \A o \in Occurrences(s, sub, 1) : p < o \/ p >= o + Len(sub) }
    IN  [j \in 1 .. Cardinality(keep) |->
            s[CHOOSE p \in keep : Cardinality({ q \in keep : q <= p }) = j]]

\* C23: Apply with -= on a key that is defined leaves the old value without
\* the occurrences of the new value, found left to right and not
\* overlapping, the other characters in order; on a key that is not defined
\* it leaves the store as Apply with = leaves it.
C23_SubtractRemoves ==
    (CallDone("Apply") /\ cin.rhs.op = OpMinusEq) =>
        /\ Found(cin.store, cin.key) =>
              cout[cin.key] = MakeVar(OpEq, Outside(cin.store[cin.key].value, cin.rhs.value))
        /\ ~Found(cin.store, cin.key) =>
              cout = Apply(cin.store, cin.key, MakeVar(OpEq, cin.rhs.value))
        /\ OthersKept

\* "aaa" less "aa" is "a", and "abab" less "ab" is empty
C23_Witness ==
    /\ CallDone("Apply")
    /\ cin.rhs = MakeVar(OpMinusEq, <<"a", "b">>)
    /\ cin.key = KeyK
    /\ Found(cin.store, KeyK) /\ cin.store[KeyK].value = <<"a", "b", "a", "b">>
    /\ cout[KeyK].value = <<>>


----------------------------------------------------------------------------
(* Further properties of Vars.ReadFromReader, under SpecReader *)

\* C24: a line that is a bare key defines the key with the value "true"; a
\* line K = v, v holding no reference, defines K with the value v; a blank
\* line and a comment line define nothing; none of them ends the reading.
C24_BareKeyIsTrue ==
    [][ LineRead =>
          /\ cur'.kind = "bare" =>
                /\ rpc' = "scan"
                /\ vars' = Set(vars, cur'.key, MakeVar(OpEq, TrueText))
          /\ ( /\ cur'.kind = "assign"
               /\ cur'.op = EqText
               /\ cur'.key \in LineKeys
               /\ NoDollar(cur'.val) ) =>
                /\ rpc' = "scan"
                /\ vars' = Set(vars, cur'.key, MakeVar(OpEq, cur'.val))
          /\ cur'.kind \in {"blank", "comment"} =>
                /\ rpc' = "scan"
                /\ vars' = vars
      ]_allVars

\* the second line was the bare key L, and L holds "true"
C24_Witness ==
    /\ rpc = "scan"
    /\ lineno = 2
    /\ cur.kind = "bare" /\ cur.key = KeyL
    /\ Found(vars, KeyL) /\ vars[KeyL] = MakeVar(OpEq, TrueText)


----------------------------------------------------------------------------
(* Properties of the output names, under SpecCalls *)

\* a stem whose base name is a name, not the root directory
Named(stem) == Base(stem) # <<Slash>>

\* naming is idempotent for every kind and every stem, the root directory
\* included
C25_IdempotentForEveryStem ==
    CallDone("FilenameForType") => cout.twice = cout.once

\* C25: for every kind and every stem whose base name is a name, naming the
\* name again changes nothing: the prefix is put before a base name only
\* when it does not start with it, the suffix after it only when it does
\* not end with it.
C25_IdempotentNaming ==
    (CallDone("FilenameForType") /\ Named(cin.name)) =>
        /\ cout.twice = cout.once
        /\ LET p == platform(goos)
               prefix == IF cin.outputtype = LibOutputType THEN p.libprefix
                         ELSE IF cin.outputtype = ExeOutputType THEN <<>>
                         ELSE p.dllprefix
               suffix == CASE cin.outputtype = LibOutputType -> p.libsuffix
                           [] cin.outputtype = ExeOutputType -> p.exesuffix
                           [] OTHER -> p.dllsuffix
           IN  /\ HasPrefix(Base(cout.once), prefix)
               /\ HasSuffix(cout.once, suffix)
               /\ HasPrefix(Base(cin.name), prefix) =>
                     Len(cout.once) <= Len(cin.name) + Len(suffix)

\* libf named as a library on an ELF host is libf.a, and so is libf.a
C25_Witness ==
    /\ CallDone("FilenameForType")
    /\ goos = "linux"
    /\ cin.outputtype = LibOutputType
    /\ cin.name = <<"l", "i", "b", "f">>
    /\ cout.once = <<"l", "i", "b", "f", ".", "a">>
    /\ cout.twice = cout.once

----------------------------------------------------------------------------
(* Further properties of Dmake.Run, under Spec *)

BinText == <<"b", "i", "n">>
LibDirText == <<"l", "i", "b">>

\* C26: the file the installer is asked to write is <prefix>/bin/<output
\* name> for an executable and <prefix>/lib/<output name> for any other
\* kind, the prefix being . when none is configured, and its mode is 0555
\* for an executable and 0444 otherwise.
C26_InstallDestination ==
    \A f \in Frames :
        \A j \in 1 .. Len(f.ran) :
            f.ran[j].cmd = "install" =>
                LET a == f.ran[j].args
                    prefix == IF f.dm.installprefix = <<>> THEN DotText ELSE f.dm.installprefix
                    exe == f.dm.outputtype = ExeOutputType
                    written == installfile(a.filename, a.destdir, a.filemode)
                IN  /\ written.dst = Join(Join(prefix, IF exe THEN BinText ELSE LibDirText),
                                          f.dm.outputname)
                    /\ written.mode = IF exe THEN "0555" ELSE "0444"

\* C27: a run whose output name was defaulted from the directory hands dcc
\* an output name that carries the prefix and the suffix of the kind it
\* builds, whether the kind was set before the run (SetOutputType) or
\* inferred in it.
C27_OverrideNamesOutput ==
    \A f \in Frames :
        \A j \in 1 .. Len(f.ran) :
            (f.ran[j].cmd = "dcc" /\ f.dm.outputnameDefaulted) =>
                f.ran[j].output = FilenameForType(goos, f.ran[j].kind, f.ran[j].output)


----------------------------------------------------------------------------
(* Properties of Dmake.CleanAction, under SpecCalls *)

\* the object file and the dependency file CleanAction derives for the
\* k-th source file of the call
ObjectOf(k) == ObjectFilename(cin.sourceFiles[k], cin.objsdir, goos)
DepsOf(k) == DependenciesFilename(ObjectOf(k), cin.depsdir, cin.objsdir)

Removals(op) == { cout.removed[j].path : j \in { i \in 1 .. Len(cout.removed) : cout.removed[i].op = op } }

\* C28: every directory Cleaning removes is the directory of the object
\* file of a source file and has the objects name as its base name, or is
\* the directory of its dependency file and has the deps name as its base
\* name; the files it removes are the output, object files and dependency
\* files, never a source file; and it returns nil.
C28_CleanRemovesOnlyDerived ==
    CallDone("CleanAction") =>
        /\ \A d \in Removals("RemoveAll") :
              \E k \in 1 .. Len(cin.sourceFiles) :
                  \/ d = Dir(ObjectOf(k)) /\ Base(d) = cin.objsdir
                  \/ d = Dir(DepsOf(k)) /\ Base(d) = cin.depsdir
        /\ \A p \in Removals("Remove") :
              /\ \A k \in 1 .. Len(cin.sourceFiles) : p # cin.sourceFiles[k]
              /\ \/ p = cin.outputname
                 \/ \E k \in 1 .. Len(cin.sourceFiles) : p \in {ObjectOf(k), DepsOf(k)}
        /\ cout.err = NoError

\* lib.c and main.c were cleaned with the default names: .dcc.o was removed
\* as the objects directory, and nothing else was removed as a directory
C28_Witness ==
    /\ CallDone("CleanAction")
    /\ cin.sourceFiles = <<FileLib, FileMain>>
    /\ cin.objsdir = DccO /\ cin.depsdir = DccD
    /\ Removals("RemoveAll") = {DccO}
    /\ cout.err = NoError

\* C30: when the objects name and the deps name differ, the dependency file
\* Cleaning derives for a source file is not its object file, and Cleaning
\* asks for the removal of the deps directory of that source file.
C30_DepsFileApart ==
    (CallDone("CleanAction") /\ cin.objsdir # cin.depsdir) =>
        \A k \in 1 .. Len(cin.sourceFiles) :
            /\ DepsOf(k) # ObjectOf(k)
            /\ DepsOf(k) \in Removals("Remove")
            /\ Join(Dir(cin.sourceFiles[k]), cin.depsdir) \in Removals("RemoveAll")

====
